---- MODULE Spec2Model ----
(***************************************************************************)
(* Micronucleus bootloader driver of avrdude (micronucleus.c): the session *)
(* state kept in struct pdata, the operations of the programmer interface  *)
(* (open, initialize, chip_erase, paged_write, powerdown, close, ...) and  *)
(* the USB control requests they issue.                                    *)
(*                                                                         *)
(* Every operation is one action.  The outcome of each usb_control_msg and *)
(* usb_open call is an input of the action (a transport failure is chosen  *)
(* nondeterministically).  lastOp records the last operation: its          *)
(* arguments, its return value, struct pdata at entry and the events it    *)
(* put on the wire, in order.                                              *)
(***************************************************************************)
EXTENDS Integers, Sequences, FiniteSets, TLC

VARIABLES
  phase,       \* position of the caller in the programmer life cycle
  usb_busses,  \* the USB devices libusb enumerates (bus->devices, flattened)
  pdata,       \* struct pdata (pgm->cookie)
  lastOp,      \* the last operation: name, arguments, result, wire events
  hist         \* what the session has put on the wire so far (summary)

vars == <<phase, usb_busses, pdata, lastOp, hist>>

(***************************************************************************)
(* Program constants                                                       *)
(***************************************************************************)
MICRONUCLEUS_VID == 5840                \* 0x16D0
MICRONUCLEUS_PID == 1875                \* 0x0753
MICRONUCLEUS_CONNECT_WAIT == 100
MICRONUCLEUS_CMD_INFO == 0
MICRONUCLEUS_CMD_TRANSFER == 1
MICRONUCLEUS_CMD_ERASE == 2
MICRONUCLEUS_CMD_PROGRAM == 3
MICRONUCLEUS_CMD_START == 4
MICRONUCLEUS_MAX_MAJOR_VERSION == 2
ReconnectTries == 25                    \* for(int i = 0; i < 25; i++)
EIO == 5                                \* errno.h
EPIPE == 32
LongJumpLimit == 8192                   \* 0x2000
JMP == 37900                            \* 0x940C, long jump opcode
RJMP == 49152                           \* 0xC000, relative jump opcode
NULL == 0                               \* usb_handle: 0, or the index of the device

(***************************************************************************)
(* Bounds of the model                                                     *)
(***************************************************************************)
MaxBytes == 8       \* largest n_bytes / caller page size of a paged write

(***************************************************************************)
(* Integer helpers: C's fixed-width arithmetic                             *)
(***************************************************************************)
U8(x) == x % 256
U16(x) == x % 65536
\* A uint32_t is kept as the int of the same 32 bits (negative from 2^31
\* on); a >= b on two of them as unsigned numbers:
GeU32(a, b) == IF (a < 0) = (b < 0) THEN a >= b ELSE a < 0
Min(a, b) == IF a < b THEN a ELSE b
Lo(x) == x % 256                        \* (uint8_t) (x >> 0)
Hi(x) == (x \div 256) % 256             \* (uint8_t) (x >> 8)
Word(lo, hi) == hi * 256 + lo           \* (hi << 8) | lo
Fill(n) == [i \in 1..n |-> 255]         \* memset(buffer, 0xFF, n)

(***************************************************************************)
(* struct pdata                                                            *)
(***************************************************************************)
\* micronucleus_setup: mmt_malloc returns zeroed memory.
pdata0 ==
  [usb_handle |-> NULL,
   wait_until_device_present |-> FALSE, wait_timout |-> 0,
   major_version |-> 0, minor_version |-> 0,
   flash_size |-> 0, page_size |-> 0, write_sleep |-> 0,
   signature1 |-> 0, signature2 |-> 0,
   pages |-> 0, bootloader_start |-> 0, erase_sleep |-> 0,
   user_reset_vector |-> 0, write_last_page |-> FALSE, start_program |-> FALSE]

(***************************************************************************)
(* The wire                                                                *)
(***************************************************************************)
\* One event of an operation as logged: kind "req" is a usb_control_msg
\* call (request code cmd, wValue, wIndex, payload, return value), "sleep"
\* a delay_ms(value), "open" a usb_open (ret = the handle), "close" a
\* usb_close.
Ev(kind, cmd, value, index, data, ret) ==
  [kind |-> kind, cmd |-> cmd, value |-> value, index |-> index,
   data |-> data, ret |-> ret]

IsReq(e) == e.kind = "req"

\* Number of control requests in a log.
NumReq(log) == Cardinality({i \in DOMAIN log : IsReq(log[i])})

\* The transport's answer to the next control request of an operation:
\* fail is a set of [at, code]: request number at (counted within the
\* operation) fails with -code; every other request returns okret.
Answer(log, fail, okret) ==
  IF \E f \in fail : f.at = NumReq(log) + 1
    THEN -(CHOOSE f \in fail : f.at = NumReq(log) + 1).code
    ELSE okret

\* usb_control_msg: the log with the request appended; the call's result
\* is the ret field of the last event.  wValue and wIndex are 16 bits wide.
usb_control_msg(log, fail, cmd, value, index, data, okret) ==
  Append(log, Ev("req", cmd, U16(value), U16(index), data,
                 Answer(log, fail, okret)))

LastRet(log) == log[Len(log)].ret

delay_ms(log, duration) == Append(log, Ev("sleep", 0, duration, 0, <<>>, 0))

\* What an operation yields: struct pdata, the wire log, the return value,
\* and whether the process died in it.
Result(pd, log, ret) == [pd |-> pd, log |-> log, ret |-> ret, crashed |-> FALSE]
Crash(pd, log) == [pd |-> pd, log |-> log, ret |-> 0, crashed |-> TRUE]

(***************************************************************************)
(* Bootloader info                                                         *)
(***************************************************************************)
\* The bytes an INFO request leaves in a zeroed buffer of the given size
\* when result bytes of the device's info block arrived.
InfoBuffer(dev, size, result) ==
  [i \in 1..size |-> IF i <= result /\ i <= Len(dev.info) THEN dev.info[i] ELSE 0]

\* The geometry both variants derive from flash_size and page_size.  The
\* division by a page size of 0 is undefined: the process dies.
Derived(pd, log) ==
  IF pd.page_size = 0 THEN Crash(pd, log)
  ELSE LET pages == U16((pd.flash_size + pd.page_size - 1) \div pd.page_size)
       IN Result([pd EXCEPT !.pages = pages,
                            !.bootloader_start = U16(pages * pd.page_size),
                            !.erase_sleep = U16(pd.write_sleep * pages)],
                 log, 0)

\* A variant of GuessedSignature that takes a flash size of 4096 for an
\* ATtiny85; C8 tells the two apart.
GuessedSignature_From4096(flash_size, page_size) ==
  IF page_size = 128 THEN <<148, 135>>
  ELSE IF page_size = 64 THEN
         IF flash_size >= 4096 THEN <<147, 11>> ELSE <<146, 6>>
  ELSE IF page_size = 16 THEN <<147, 21>>
  ELSE <<0, 0>>

\* The part id guessed from the page size and the flash size (V1).
GuessedSignature(flash_size, page_size) ==
  IF page_size = 128 THEN <<148, 135>>                 \* ATtiny167 0x94 0x87
  ELSE IF page_size = 64 THEN
         IF flash_size > 4096 THEN <<147, 11>>         \* ATtiny85  0x93 0x0B
         ELSE <<146, 6>>                               \* ATtiny45  0x92 0x06
  ELSE IF page_size = 16 THEN <<147, 21>>              \* ATtiny841 0x93 0x15
  ELSE <<0, 0>>

micronucleus_get_bootloader_info_v1(pd, log0, fail, dev, got) ==
  LET log == usb_control_msg(log0, fail, MICRONUCLEUS_CMD_INFO, 0, 0, <<>>, Min(got, 4))
      result == LastRet(log)
      buffer == InfoBuffer(dev, 4, result)
  IN IF result < 0 THEN Result(pd, log, result)
     ELSE IF result < 4 THEN Result(pd, log, -1)
     ELSE LET flash_size == U16(buffer[1] * 256 + buffer[2])
              page_size == buffer[3]
              sig == GuessedSignature(flash_size, page_size)
          IN Derived([pd EXCEPT !.flash_size = flash_size,
                                !.page_size = page_size,
                                !.write_sleep = buffer[4] % 128,
                                !.signature1 = sig[1],
                                !.signature2 = sig[2]], log)

\* A variant of micronucleus_get_bootloader_info_v2 that is content with
\* the four bytes of a V1 block; C16 tells the two apart.
micronucleus_get_bootloader_info_v2_FourBytes(pd, log0, fail, dev, got) ==
  LET log == usb_control_msg(log0, fail, MICRONUCLEUS_CMD_INFO, 0, 0, <<>>, Min(got, 6))
      result == LastRet(log)
      buffer == InfoBuffer(dev, 6, result)
  IN IF result < 0 THEN Result(pd, log, result)
     ELSE IF result < 4 THEN Result(pd, log, -1)
     ELSE LET r == Derived([pd EXCEPT !.flash_size = U16(buffer[1] * 256 + buffer[2]),
                                      !.page_size = buffer[3],
                                      !.write_sleep = U8((buffer[4] % 128) + 2),
                                      !.signature1 = buffer[5],
                                      !.signature2 = buffer[6]], log)
          IN IF r.crashed \/ (buffer[4] \div 128) % 2 = 0 THEN r
             ELSE [r EXCEPT !.pd.erase_sleep = r.pd.erase_sleep \div 4]

micronucleus_get_bootloader_info_v2(pd, log0, fail, dev, got) ==
  LET log == usb_control_msg(log0, fail, MICRONUCLEUS_CMD_INFO, 0, 0, <<>>, Min(got, 6))
      result == LastRet(log)
      buffer == InfoBuffer(dev, 6, result)
  IN IF result < 0 THEN Result(pd, log, result)
     ELSE IF result < 6 THEN Result(pd, log, -1)
     ELSE LET r == Derived([pd EXCEPT !.flash_size = U16(buffer[1] * 256 + buffer[2]),
                                      !.page_size = buffer[3],
                                      !.write_sleep = U8((buffer[4] % 128) + 2),
                                      !.signature1 = buffer[5],
                                      !.signature2 = buffer[6]], log)
          IN IF r.crashed \/ (buffer[4] \div 128) % 2 = 0 THEN r
             ELSE [r EXCEPT !.pd.erase_sleep = r.pd.erase_sleep \div 4]

micronucleus_get_bootloader_info(pd, log, fail, dev, got) ==
  IF pd.major_version >= 2
    THEN micronucleus_get_bootloader_info_v2(pd, log, fail, dev, got)
    ELSE micronucleus_get_bootloader_info_v1(pd, log, fail, dev, got)

\* A variant of micronucleus_patch_reset_vector that stores the user reset
\* vector before it looks for the branch; C22 tells the two apart.
micronucleus_patch_reset_vector_CaptureFirst(pd, buffer) ==
  LET word0 == Word(buffer[1], buffer[2])
      word1 == Word(buffer[3], buffer[4])
      branch == word0 = JMP \/ word0 \div 4096 = 12
      vector == IF word0 = JMP THEN word1 ELSE U16((word0 % 4096) + 1)
      data == RJMP + (((pd.bootloader_start \div 2) - 1) % 4096)
      patched ==
        IF pd.bootloader_start > LongJumpLimit
          THEN [buffer EXCEPT ![1] = Lo(JMP), ![2] = Hi(JMP),
                              ![3] = Lo(pd.bootloader_start),
                              ![4] = Hi(pd.bootloader_start)]
          ELSE [buffer EXCEPT ![1] = Lo(data), ![2] = Hi(data)]
  IN [pd |-> [pd EXCEPT !.user_reset_vector = vector],
      buffer |-> IF branch THEN patched ELSE buffer,
      ret |-> IF branch THEN 0 ELSE -1]

(***************************************************************************)
(* Firmware patch engine                                                   *)
(***************************************************************************)
\* buffer[i] of the C code is buffer[i + 1] here.
\* Result: ret < 0 and nothing changed, or the captured user reset vector
\* and the buffer with the jump to the bootloader patched in.
micronucleus_patch_reset_vector(pd, buffer) ==
  LET word0 == Word(buffer[1], buffer[2])
      word1 == Word(buffer[3], buffer[4])
      branch == word0 = JMP \/ word0 \div 4096 = 12   \* (word0 & 0xF000) == 0xC000
      vector == IF word0 = JMP THEN word1 ELSE U16((word0 % 4096) + 1)
      data == RJMP + (((pd.bootloader_start \div 2) - 1) % 4096)
      patched ==
        IF pd.bootloader_start > LongJumpLimit
          THEN [buffer EXCEPT ![1] = Lo(JMP), ![2] = Hi(JMP),
                              ![3] = Lo(pd.bootloader_start),
                              ![4] = Hi(pd.bootloader_start)]
          ELSE [buffer EXCEPT ![1] = Lo(data), ![2] = Hi(data)]
  IN IF branch
       THEN [pd |-> [pd EXCEPT !.user_reset_vector = vector],
             buffer |-> patched, ret |-> 0]
       ELSE [pd |-> pd, buffer |-> buffer, ret |-> -1]

\* A variant of micronucleus_patch_user_vector whose relative jump is
\* encoded as if it stood at address 0; C9 tells the two apart.
micronucleus_patch_user_vector_FromZero(pd, buffer) ==
  LET user_reset_addr == U16(pd.bootloader_start - 4)
      address == U16(pd.bootloader_start - pd.page_size)
      off == user_reset_addr - address
      data == RJMP + ((pd.user_reset_vector - 1) % 4096)
  IN IF user_reset_addr > LongJumpLimit
       THEN [buffer EXCEPT ![off + 1] = Lo(JMP), ![off + 2] = Hi(JMP),
                           ![off + 3] = Lo(pd.user_reset_vector),
                           ![off + 4] = Hi(pd.user_reset_vector)]
       ELSE [buffer EXCEPT ![off + 1] = Lo(data), ![off + 2] = Hi(data)]

\* The buffer of the last page with the jump to the user program patched in
\* at bootloader_start - 4.
micronucleus_patch_user_vector(pd, buffer) ==
  LET user_reset_addr == U16(pd.bootloader_start - 4)
      address == U16(pd.bootloader_start - pd.page_size)
      off == user_reset_addr - address
      data == RJMP + ((pd.user_reset_vector - (user_reset_addr \div 2) - 1) % 4096)
  IN IF user_reset_addr > LongJumpLimit
       THEN [buffer EXCEPT ![off + 1] = Lo(JMP), ![off + 2] = Hi(JMP),
                           ![off + 3] = Lo(pd.user_reset_vector),
                           ![off + 4] = Hi(pd.user_reset_vector)]
       ELSE [buffer EXCEPT ![off + 1] = Lo(data), ![off + 2] = Hi(data)]

(***************************************************************************)
(* Paged write protocol                                                    *)
(***************************************************************************)
\* The log after the page went out as one TRANSFER request with payload.
micronucleus_write_page_v1(log, fail, address, buffer, size) ==
  usb_control_msg(log, fail, MICRONUCLEUS_CMD_TRANSFER, size, address,
                  SubSeq(buffer, 1, size), size)

\* for(i = 0; i < size; i += 4): one PROGRAM request per two words, until
\* one fails.
RECURSIVE ProgramWords(_, _, _, _, _)
ProgramWords(log, fail, buffer, size, i) ==
  IF i >= size THEN log
  ELSE LET w1 == Word(buffer[i + 1], buffer[i + 2])
           w2 == Word(buffer[i + 3], buffer[i + 4])
           next == usb_control_msg(log, fail, MICRONUCLEUS_CMD_PROGRAM, w1, w2, <<>>, 0)
       IN IF LastRet(next) < 0 THEN next
          ELSE ProgramWords(next, fail, buffer, size, i + 4)

\* The log after the page went out as a TRANSFER request without payload
\* and the PROGRAM requests that follow it.
micronucleus_write_page_v2(log, fail, address, buffer, size) ==
  LET first == usb_control_msg(log, fail, MICRONUCLEUS_CMD_TRANSFER, size, address, <<>>, 0)
  IN IF LastRet(first) < 0 THEN first
     ELSE ProgramWords(first, fail, buffer, size, 0)

\* pd with both flags set: the page at address 0 was handed in.
RequireLastPageAndStart(pd) ==
  [pd EXCEPT !.write_last_page = TRUE, !.start_program = TRUE]

\* Whether write_page takes an address for the last page:
\* address >= (uint32_t) (bootloader_start - page_size).
IsLastPageAddress(pd, address) ==
  GeU32(address, pd.bootloader_start - pd.page_size)

micronucleus_write_page(pd, log, fail, address, buffer, size) ==
  LET v2 == pd.major_version >= 2
      reset == micronucleus_patch_reset_vector(pd, buffer)
      pd1 == IF address = 0
               THEN RequireLastPageAndStart(IF v2 THEN reset.pd ELSE pd)
             ELSE IF IsLastPageAddress(pd, address)
               THEN [pd EXCEPT !.write_last_page = FALSE]
             ELSE pd
      buffer1 == IF ~v2 THEN buffer
                 ELSE IF address = 0 THEN reset.buffer
                 ELSE IF IsLastPageAddress(pd, address)
                   THEN micronucleus_patch_user_vector(pd, buffer)
                 ELSE buffer
      sent == IF v2 THEN micronucleus_write_page_v2(log, fail, address, buffer1, size)
                    ELSE micronucleus_write_page_v1(log, fail, address, buffer1, size)
  IN IF address = 0 /\ v2 /\ reset.ret < 0 THEN Result(reset.pd, log, reset.ret)
     ELSE IF LastRet(sent) < 0 THEN Result(pd1, sent, LastRet(sent))
     ELSE Result(pd1, delay_ms(sent, pd.write_sleep), 0)

\* mem->buf: the first two words are the image's reset vector, the other
\* bytes follow a pattern that never yields the fill byte.
MemByte(img, a) ==
  IF a = 0 THEN Lo(img.w0) ELSE IF a = 1 THEN Hi(img.w0)
  ELSE IF a = 2 THEN Lo(img.w1) ELSE IF a = 3 THEN Hi(img.w1)
  ELSE (a * 3 + 1) % 255

\* A variant of PageBuffer that pads with 0x00; C5 tells the two apart.
PageBuffer_ZeroFill(img, addr, chunk_size, page_size) ==
  [i \in 1..page_size |-> IF i <= chunk_size THEN MemByte(img, addr + i - 1) ELSE 0]

\* memcpy(page_buffer, mem->buf + addr, chunk_size);
\* memset(page_buffer + chunk_size, 0xFF, page_size - chunk_size)
PageBuffer(img, addr, chunk_size, page_size) ==
  [i \in 1..page_size |-> IF i <= chunk_size THEN MemByte(img, addr + i - 1) ELSE 255]

\* while(n_bytes > 0) { ... }
RECURSIVE PagedWriteLoop(_, _, _, _, _, _)
PagedWriteLoop(pd, log, fail, img, addr, n_bytes) ==
  IF n_bytes <= 0 THEN Result(pd, log, 0)
  ELSE LET chunk_size == Min(n_bytes, pd.page_size)
           page_buffer == PageBuffer(img, addr, chunk_size, pd.page_size)
           r == micronucleus_write_page(pd, log, fail, addr, page_buffer, pd.page_size)
       IN IF r.ret < 0 THEN r
          ELSE PagedWriteLoop(r.pd, r.log, fail, img, addr + chunk_size, n_bytes - chunk_size)

\* A variant of micronucleus_paged_write without the flash size check; C4
\* tells the two apart.
micronucleus_paged_write_NoFlashBound(pd, fail, mem, img, page_size, addr, n_bytes) ==
  IF mem # "flash" THEN Result(pd, <<>>, -1)
  ELSE IF n_bytes > page_size THEN Result(pd, <<>>, -1)
  ELSE PagedWriteLoop(pd, <<>>, fail, img, addr, n_bytes)

\* addr lies within mem->buf, whose size is an int: addr + n_bytes does not
\* wrap around 32 bits.
micronucleus_paged_write(pd, fail, mem, img, page_size, addr, n_bytes) ==
  IF mem # "flash" THEN Result(pd, <<>>, -1)
  ELSE IF n_bytes > page_size THEN Result(pd, <<>>, -1)
  ELSE IF addr + n_bytes > pd.flash_size THEN Result(pd, <<>>, -1)
  ELSE PagedWriteLoop(pd, <<>>, fail, img, addr, n_bytes)

(***************************************************************************)
(* Erase / start sequencer                                                 *)
(***************************************************************************)
\* The log with the INFO probe appended; the probe's verdict is
\* CheckResult of that log.
micronucleus_check_connection(pd, log, fail, got) ==
  LET size == IF pd.major_version >= 2 THEN 6 ELSE 4
  IN usb_control_msg(log, fail, MICRONUCLEUS_CMD_INFO, 0, 0, <<>>, Min(got, size))

\* result == sizeof(buffer)? 0: -1
CheckResult(pd, log) ==
  IF LastRet(log) = (IF pd.major_version >= 2 THEN 6 ELSE 4) THEN 0 ELSE -1

\* A variant of ReconnectLoop that makes one attempt more; C11 tells the
\* two apart.
RECURSIVE ReconnectLoop_OneMore(_, _, _, _, _)
ReconnectLoop_OneMore(pd, log, device, openAt, i) ==
  IF i > ReconnectTries THEN Result(pd, log, -1)
  ELSE IF i + 1 = openAt
    THEN Result([pd EXCEPT !.usb_handle = device],
                Append(log, Ev("open", 0, 0, 0, <<>>, device)), 0)
    ELSE ReconnectLoop_OneMore(pd, delay_ms(Append(log, Ev("open", 0, 0, 0, <<>>, NULL)),
                                            MICRONUCLEUS_CONNECT_WAIT),
                               device, openAt, i + 1)

\* for(int i = 0; i < 25; i++): usb_open succeeds at attempt openAt
\* (1-based; 0: at none).
RECURSIVE ReconnectLoop(_, _, _, _, _)
ReconnectLoop(pd, log, device, openAt, i) ==
  IF i >= ReconnectTries THEN Result(pd, log, -1)
  ELSE IF i + 1 = openAt
    THEN Result([pd EXCEPT !.usb_handle = device],
                Append(log, Ev("open", 0, 0, 0, <<>>, device)), 0)
    ELSE ReconnectLoop(pd, delay_ms(Append(log, Ev("open", 0, 0, 0, <<>>, NULL)),
                                    MICRONUCLEUS_CONNECT_WAIT),
                       device, openAt, i + 1)

micronucleus_reconnect(pd, log, openAt) ==
  ReconnectLoop([pd EXCEPT !.usb_handle = NULL],
                Append(log, Ev("close", 0, 0, 0, <<>>, 0)),
                pd.usb_handle, openAt, 0)

\* A variant of micronucleus_erase_device that tolerates -EIO only; C10
\* tells the two apart.
micronucleus_erase_device_OnlyEIO(pd, fail, got, openAt) ==
  LET erased == usb_control_msg(<<>>, fail, MICRONUCLEUS_CMD_ERASE, 0, 0, <<>>, 0)
      result == LastRet(erased)
      probed == micronucleus_check_connection(pd, delay_ms(erased, pd.erase_sleep), fail, got)
  IN IF result < 0 /\ result # -EIO THEN Result(pd, erased, result)
     ELSE IF CheckResult(pd, probed) < 0 THEN micronucleus_reconnect(pd, probed, openAt)
     ELSE Result(pd, probed, 0)

micronucleus_erase_device(pd, fail, got, openAt) ==
  LET erased == usb_control_msg(<<>>, fail, MICRONUCLEUS_CMD_ERASE, 0, 0, <<>>, 0)
      result == LastRet(erased)
      probed == micronucleus_check_connection(pd, delay_ms(erased, pd.erase_sleep), fail, got)
  IN IF result < 0 /\ result \notin {-EIO, -EPIPE} THEN Result(pd, erased, result)
     ELSE IF CheckResult(pd, probed) < 0 THEN micronucleus_reconnect(pd, probed, openAt)
     ELSE Result(pd, probed, 0)

micronucleus_start(log, fail) ==
  usb_control_msg(log, fail, MICRONUCLEUS_CMD_START, 0, 0, <<>>, 0)

micronucleus_powerdown(pd, fail) ==
  LET written ==
        IF pd.write_last_page
          THEN micronucleus_write_page([pd EXCEPT !.write_last_page = FALSE], <<>>, fail,
                                       pd.bootloader_start - pd.page_size,
                                       Fill(pd.page_size), pd.page_size)
          ELSE Result(pd, <<>>, 0)
  IN IF written.pd.start_program
       THEN Result([written.pd EXCEPT !.start_program = FALSE],
                   micronucleus_start(written.log, fail), 0)
       ELSE Result(written.pd, written.log, 0)

\* The three signature bytes read_sig_bytes stores in mem->buf, or <<>>
\* when it fails.
micronucleus_read_sig_bytes(pd, mem_size) ==
  IF mem_size < 3 THEN <<>> ELSE <<30, pd.signature1, pd.signature2>>

\* The memory classes read_byte tells apart, by the memory's name.
mem_is_a_fuse(mem) == mem \in {"fuse", "lfuse", "hfuse", "efuse"}
mem_is_lock(mem) == mem = "lock"

\* A variant of micronucleus_read_byte that answers 0xFF for every memory;
\* C17 tells the two apart.
micronucleus_read_byte_AnyMemory(pd, mem, addr) ==
  [pd |-> pd, log |-> <<>>, ret |-> 0, crashed |-> FALSE, value |-> <<255>>]

\* value is <<v>> when *value was stored, <<>> when it was left alone.
micronucleus_read_byte(pd, mem, addr) ==
  IF mem_is_a_fuse(mem) \/ mem_is_lock(mem)
    THEN [pd |-> pd, log |-> <<>>, ret |-> 0, crashed |-> FALSE, value |-> <<255>>]
    ELSE [pd |-> pd, log |-> <<>>, ret |-> -1, crashed |-> FALSE, value |-> <<>>]

micronucleus_write_byte(pd, mem, addr, value) == Result(pd, <<>>, -1)

micronucleus_paged_load(pd, mem, page_size, addr, n_bytes) == Result(pd, <<>>, -1)

(***************************************************************************)
(* Reading the wire log back                                               *)
(***************************************************************************)
IsCmd(e, cmd) == IsReq(e) /\ e.cmd = cmd

\* The bytes two PROGRAM parameters carry.
WordBytes(e) == <<Lo(e.value), Hi(e.value), Lo(e.index), Hi(e.index)>>

RECURSIVE ProgramBytes(_, _, _)
ProgramBytes(log, i, k) ==
  IF k = 0 THEN <<>> ELSE WordBytes(log[i]) \o ProgramBytes(log, i + 1, k - 1)

\* The page whose TRANSFER request is log[i]: its address, its size, the
\* bytes that arrived and whether all its requests succeeded.  V1 carries
\* the bytes in the TRANSFER request, V2 in the (size + 3) / 4 PROGRAM
\* requests that follow it.
PageAt(log, v2, i) ==
  LET t == log[i]
      k == (t.value + 3) \div 4
      there == i + k <= Len(log)
               /\ \A j \in (i + 1)..(i + k) :
                     IsCmd(log[j], MICRONUCLEUS_CMD_PROGRAM) /\ log[j].ret >= 0
  IN IF ~v2 THEN [addr |-> t.index, size |-> t.value, bytes |-> t.data,
                  complete |-> t.ret >= 0]
     ELSE IF t.ret >= 0 /\ there
       THEN [addr |-> t.index, size |-> t.value,
             bytes |-> ProgramBytes(log, i + 1, k), complete |-> TRUE]
       ELSE [addr |-> t.index, size |-> t.value, bytes |-> <<>>, complete |-> FALSE]

\* The pages of a log, complete or not, in the order of their TRANSFER
\* requests.
RECURSIVE PagesFrom(_, _, _)
PagesFrom(log, v2, i) ==
  IF i > Len(log) THEN <<>>
  ELSE IF IsCmd(log[i], MICRONUCLEUS_CMD_TRANSFER)
    THEN <<PageAt(log, v2, i)>> \o PagesFrom(log, v2, i + 1)
    ELSE PagesFrom(log, v2, i + 1)

Pages(log, v2) == PagesFrom(log, v2, 1)

\* The requests of a log with the given command code (their positions).
ReqsOf(log, cmd) == {i \in DOMAIN log : IsCmd(log[i], cmd)}

AnyFailed(log) == \E i \in DOMAIN log : IsReq(log[i]) /\ log[i].ret < 0

\* The word address a branch at byte offset off of a page leads to, read as
\* the AVR executes it at word address at: jmp takes the second word, rjmp
\* is relative to the next instruction within 4096 words; -1: no branch.
BranchTarget(bytes, off, at) ==
  LET w == Word(bytes[off + 1], bytes[off + 2])
  IN IF w = JMP THEN Word(bytes[off + 3], bytes[off + 4])
     ELSE IF w \div 4096 = 12 THEN (at + 1 + (w % 4096)) % 4096
     ELSE -1

IsLongJump(bytes, off) == Word(bytes[off + 1], bytes[off + 2]) = JMP
IsRelJump(bytes, off) == Word(bytes[off + 1], bytes[off + 2]) \div 4096 = 12

\* The user reset vector as write_page reads it off the first two words of
\* a page 0: the second word of a long jump, (word & 0x0FFF) + 1 of a
\* relative jump; -1: no branch.
PageZeroRule(bytes) ==
  LET w == Word(bytes[1], bytes[2])
  IN IF w = JMP THEN Word(bytes[3], bytes[4])
     ELSE IF w \div 4096 = 12 THEN (w % 4096) + 1
     ELSE -1

\* A page that carries at byte offset off, executed at word address at, a
\* jump to word address v.
JumpsTo(bytes, off, at, v) ==
  \/ IsLongJump(bytes, off) /\ BranchTarget(bytes, off, at) = v
  \/ IsRelJump(bytes, off) /\ BranchTarget(bytes, off, at) = v % 4096

(***************************************************************************)
(* Session history                                                         *)
(***************************************************************************)
\* zero: a page at address 0 went out completely; vector: the user reset
\* vector of the most recent such page (page 0 rule, on the caller's
\* bytes); last: since then a page at bootloader_start - page_size went out
\* completely, carrying at bootloader_start - 4 a jump to vector;
\* failed: a control request of the session failed.
hist0 == [zero |-> FALSE, vector |-> 0, last |-> FALSE, failed |-> FALSE]

RECURSIVE HistFold(_, _, _, _, _)
HistFold(h, pages, i, pd, v) ==
  IF i > Len(pages) THEN h
  ELSE LET pg == pages[i]
           lastAddr == U16(pd.bootloader_start - pd.page_size)
           off == pd.page_size - 4
           h1 == IF ~pg.complete THEN h
                 ELSE IF pg.addr = 0
                   THEN [h EXCEPT !.zero = TRUE, !.vector = v, !.last = FALSE]
                 ELSE IF /\ h.zero /\ pg.addr = lastAddr /\ off >= 0
                         /\ JumpsTo(pg.bytes, off,
                                    U16(pd.bootloader_start - 4) \div 2, h.vector)
                   THEN [h EXCEPT !.last = TRUE]
                 ELSE h
       IN HistFold(h1, pages, i + 1, pd, v)

\* hist after an operation that left log on the wire; v is the user reset
\* vector of the page 0 the caller handed in, if any.
HistAfter(h, log, pd, v) ==
  [HistFold(h, Pages(log, pd.major_version >= 2), 1, pd, v)
     EXCEPT !.failed = h.failed \/ AnyFailed(log)]

(***************************************************************************)
(* Inputs                                                                  *)
(***************************************************************************)
\* Error codes a control request may fail with (errno values, negated by
\* libusb): EIO, EPIPE, and ENODEV for "any other".
ErrCodes == {EIO, EPIPE, 19}
WriteErrCodes == {EPIPE}

\* No failing request, or one among the first n.
FailSets(n, codes) ==
  {{}} \cup {{[at |-> k, code |-> c]} : k \in 1..n, c \in codes}
\* Request k fails for k in ks, and so does the one after it.
FailPairs(ks, codes) ==
  {{[at |-> k, code |-> c], [at |-> k + 1, code |-> c]} : k \in ks, c \in codes}

\* Bytes an INFO request may return when it does not fail.
InfoLens == {0, 3, 4, 5, 6}

\* A device on the bus: descriptor fields and the info block it answers
\* INFO with: flash size (big endian), page size, write sleep, signature.
Device(major, info) ==
  [idVendor |-> MICRONUCLEUS_VID, idProduct |-> MICRONUCLEUS_PID,
   bcdDevice |-> major * 256 + 3, info |-> info]

\* Info blocks of the sessions explored: one page; four pages of 4; two
\* pages of 8 with a flash size that is no multiple; bootloader starts
\* beyond 0x2000 (0x2008 and 0x2004); a flash size whose page count times
\* page size exceeds 16 bits; a page size of 0.
SessionInfo ==
  { <<0, 4, 4, 133, 147, 11>>, <<0, 16, 4, 133, 147, 11>>,
    <<0, 14, 8, 133, 147, 11>>, <<32, 8, 8, 133, 147, 11>>,
    <<32, 4, 4, 133, 147, 11>>, <<255, 255, 4, 133, 147, 11>>,
    <<0, 16, 0, 133, 147, 11>> }

SessionDevices ==
  {Device(2, info) : info \in SessionInfo}
  \cup {Device(1, info) : info \in {<<0, 4, 4, 133, 147, 11>>, <<0, 16, 4, 133, 147, 11>>}}

\* mem->buf images: reset vector rjmp (0xC005), jmp 0x0123, and no branch
\* (0x0000).
Images == { [w0 |-> 49157, w1 |-> 4660], [w0 |-> JMP, w1 |-> 291],
            [w0 |-> 0, w1 |-> 4660] }
NoImage == [w0 |-> 0, w1 |-> 0]

\* Addresses the caller writes at: page 0, the second page, the last page
\* and an address inside the last page.
Addrs(pd) ==
  {0, pd.page_size, (pd.pages - 1) * pd.page_size, (pd.pages - 1) * pd.page_size + 2}

\* Sizes the caller writes, and the page sizes it is configured with.
NBytes == {0, 2, 4, 5, MaxBytes}
CallerPageSizes == {4, MaxBytes}

NoArg == [mem |-> "", img |-> NoImage, page_size |-> 0, addr |-> 0, n_bytes |-> 0]

(***************************************************************************)
(* The session                                                             *)
(***************************************************************************)
\* struct pdata once micronucleus_open has retained device number h.
Connected(h, dev) ==
  [pdata0 EXCEPT !.usb_handle = h,
                 !.major_version = U8(dev.bcdDevice \div 256),
                 !.minor_version = U8(dev.bcdDevice)]

\* The device behind the session's handle.
Dev == usb_busses[IF pdata.usb_handle = NULL THEN 1 ELSE pdata.usb_handle]

\* usb_control_msg dereferences the handle: with a NULL handle the process
\* dies in the first control request of the operation.
OnHandle(r) ==
  IF pdata.usb_handle = NULL /\ NumReq(r.log) > 0
    THEN Crash(pdata, <<r.log[1]>>)
    ELSE r

Op(name, arg, r, out) ==
  [name |-> name, arg |-> arg, ret |-> r.ret, log |-> r.log, pre |-> pdata,
   out |-> out, crashed |-> r.crashed]

\* The caller is between two calls.
NoOp == [name |-> "", arg |-> NoArg, ret |-> 0, log |-> <<>>, pre |-> pdata0,
         out |-> <<>>, crashed |-> FALSE]

\* A session that micronucleus_open has connected to its device.
Init ==
  /\ phase = "opened"
  /\ \E dev \in SessionDevices :
       /\ usb_busses = <<dev>>
       /\ pdata = Connected(1, dev)
  /\ lastOp = NoOp
  /\ hist = hist0

\* The caller takes the result of the operation that returned and goes on.
Continue ==
  /\ lastOp # NoOp
  /\ phase \notin {"crashed", "scanning"}
  /\ lastOp' = NoOp
  /\ UNCHANGED <<phase, usb_busses, pdata, hist>>

Initialize ==
  /\ phase = "opened" /\ lastOp = NoOp
  /\ \E fail \in FailSets(1, ErrCodes), got \in InfoLens :
       LET r == OnHandle(micronucleus_get_bootloader_info(pdata, <<>>, fail, Dev, got))
       IN /\ pdata' = r.pd
          /\ lastOp' = Op("initialize", NoArg, r, <<>>)
          /\ phase' = IF r.crashed THEN "crashed"
                       ELSE IF r.ret < 0 THEN "initfailed" ELSE "ready"
          /\ hist' = HistAfter(hist, r.log, pdata, -1)
  /\ UNCHANGED usb_busses

ReadSigBytes ==
  /\ phase = "ready" /\ lastOp = NoOp
  /\ \E mem_size \in {2, 3} :
       LET out == micronucleus_read_sig_bytes(pdata, mem_size)
       IN lastOp' = Op("read_sig_bytes", [NoArg EXCEPT !.mem = "signature", !.n_bytes = mem_size],
                       Result(pdata, <<>>, IF out = <<>> THEN -1 ELSE 0), out)
  /\ UNCHANGED <<phase, usb_busses, pdata, hist>>

\* The memories the caller names in byte and page operations.
Mems == {"flash", "eeprom", "lfuse", "hfuse", "lock", "signature"}

ReadByte ==
  /\ phase \in {"opened", "ready"} /\ lastOp = NoOp
  /\ \E mem \in Mems, addr \in {0, 1} :
       LET r == micronucleus_read_byte(pdata, mem, addr)
       IN /\ pdata' = r.pd
          /\ lastOp' = Op("read_byte", [NoArg EXCEPT !.mem = mem, !.addr = addr], r, r.value)
  /\ UNCHANGED <<phase, usb_busses, hist>>

WriteByte ==
  /\ phase \in {"opened", "ready"} /\ lastOp = NoOp
  /\ \E mem \in Mems, value \in {0, 255} :
       LET r == micronucleus_write_byte(pdata, mem, 0, value)
       IN /\ pdata' = r.pd
          /\ lastOp' = Op("write_byte", [mem |-> mem, addr |-> 0, value |-> value], r, <<>>)
  /\ UNCHANGED <<phase, usb_busses, hist>>

PagedLoad ==
  /\ phase \in {"opened", "ready"} /\ lastOp = NoOp
  /\ \E mem \in {"flash", "eeprom"}, addr \in {0, 4}, n_bytes \in {0, 4} :
       LET r == micronucleus_paged_load(pdata, mem, 4, addr, n_bytes)
       IN /\ pdata' = r.pd
          /\ lastOp' = Op("paged_load", [NoArg EXCEPT !.mem = mem, !.page_size = 4,
                                                       !.addr = addr, !.n_bytes = n_bytes],
                          r, <<>>)
  /\ UNCHANGED <<phase, usb_busses, hist>>

\* The ERASE request succeeds or fails with any code; the probe fails,
\* comes back short or complete; a reconnect succeeds at the first, the
\* second or the last attempt, or at none.
ChipErase ==
  /\ phase = "ready" /\ lastOp = NoOp
  /\ \E fail \in FailSets(1, ErrCodes) \cup FailSets(2, {EIO}) \cup FailPairs({1}, {EIO, EPIPE}),
        got \in {0, 4, 6}, openAt \in {0, 1, 2, ReconnectTries} :
       LET r == OnHandle(micronucleus_erase_device(pdata, fail, got, openAt))
       IN /\ pdata' = r.pd
          /\ lastOp' = Op("chip_erase", NoArg, r, <<>>)
          /\ phase' = IF r.crashed THEN "crashed" ELSE phase
          /\ hist' = HistAfter(hist, r.log, pdata, -1)
  /\ UNCHANGED usb_busses

\* The arguments of the paged writes explored: to flash, any image where
\* the write starts at the reset vector, sizes up to one beyond the
\* caller's page size; one write to another memory.
PagedWriteArgs(pd) ==
  {a \in [mem : {"flash"}, img : Images, page_size : CallerPageSizes,
          addr : Addrs(pd), n_bytes : NBytes] :
     /\ a.n_bytes <= a.page_size + 1
     /\ a.addr # 0 => a.img.w0 = JMP}
  \cup {[mem |-> "eeprom", img |-> NoImage, page_size |-> 4, addr |-> 0, n_bytes |-> 4]}

PagedWrite ==
  /\ phase = "ready" /\ lastOp = NoOp
  /\ \E a \in PagedWriteArgs(pdata) :
       LET n == NumReq(micronucleus_paged_write(pdata, {}, a.mem, a.img, a.page_size, a.addr, a.n_bytes).log)
           first == PageBuffer(a.img, 0, Min(a.n_bytes, pdata.page_size), pdata.page_size)
       IN \E fail \in FailSets(n, WriteErrCodes) :
            LET r == OnHandle(micronucleus_paged_write(pdata, fail, a.mem, a.img, a.page_size, a.addr, a.n_bytes))
            IN /\ pdata' = r.pd
               /\ lastOp' = Op("paged_write", a, r, <<>>)
               /\ phase' = IF r.crashed THEN "crashed" ELSE phase
               /\ hist' = HistAfter(hist, r.log, pdata,
                                    IF a.addr = 0 THEN PageZeroRule(first) ELSE -1)
  /\ UNCHANGED usb_busses

Powerdown ==
  /\ phase \in {"ready", "initfailed"} /\ lastOp = NoOp
  /\ LET n == NumReq(micronucleus_powerdown(pdata, {}).log)
     IN \E fail \in FailSets(n, WriteErrCodes) \cup FailPairs(1..(n - 1), WriteErrCodes) :
          LET r == OnHandle(micronucleus_powerdown(pdata, fail))
          IN /\ pdata' = r.pd
             /\ lastOp' = Op("powerdown", NoArg, r, <<>>)
             /\ phase' = IF r.crashed THEN "crashed" ELSE "down"
             /\ hist' = HistAfter(hist, r.log, pdata, -1)
  /\ UNCHANGED usb_busses

Close ==
  /\ phase = "down" /\ lastOp = NoOp
  /\ pdata' = [pdata EXCEPT !.usb_handle = NULL]
  /\ lastOp' = Op("close", NoArg,
                  Result(pdata, IF pdata.usb_handle # NULL
                                  THEN <<Ev("close", 0, 0, 0, <<>>, 0)>> ELSE <<>>, 0),
                  <<>>)
  /\ phase' = "closed"
  /\ UNCHANGED <<usb_busses, hist>>

Next ==
  \/ Continue \/ Initialize \/ ReadSigBytes \/ ChipErase \/ PagedWrite
  \/ ReadByte \/ WriteByte \/ PagedLoad \/ Powerdown \/ Close

Spec == Init /\ [][Next]_vars

(***************************************************************************)
(* Bootloader info over the whole range of info blocks                     *)
(***************************************************************************)
\* Info blocks: flash sizes from 4 to 0xFFFF, page sizes from 0 to 255,
\* write sleep bytes with bit 7 clear and set; among them scenario A
\* (0x10, 0x00, 0x40, 0x02).
InfoFlash == {<<0, 4>>, <<16, 0>>, <<16, 1>>, <<32, 0>>, <<128, 0>>, <<255, 255>>}
InfoPageSizes == {0, 1, 4, 16, 64, 128, 255}
InfoSleeps == {0, 2, 5, 127, 128, 133, 255}
InfoBlocks ==
  {<<f[1], f[2], p, w, 147, 11>> : f \in InfoFlash, p \in InfoPageSizes, w \in InfoSleeps}
InfoDevices == {Device(major, info) : major \in {1, 2}, info \in InfoBlocks}

InfoInit ==
  /\ phase = "opened"
  /\ \E dev \in InfoDevices :
       /\ usb_busses = <<dev>>
       /\ pdata = Connected(1, dev)
  /\ lastOp = NoOp
  /\ hist = hist0

InfoNext == Continue \/ Initialize \/ ReadSigBytes

InfoSpec == InfoInit /\ [][InfoNext]_vars

(***************************************************************************)
(* The two vector patches, one after the other                             *)
(***************************************************************************)
\* V2 info blocks whose bootloader_start - 4 is 12, 0x19FC, 0x1FFC,
\* 0x1FFF, 0x2000, 0x2001, 0x2004 and 0xFFFC (bootloader_start 0x2000,
\* 0x2003, 0x2004, 0x2005 around the limit of the relative jump; 0 after
\* 16-bit wrap-around).
PatchInfo ==
  { <<0, 16, 4, 5, 147, 11>>, <<26, 0, 64, 5, 147, 11>>, <<32, 0, 64, 5, 147, 11>>,
    <<32, 3, 5, 5, 147, 11>>, <<32, 4, 4, 5, 147, 11>>, <<32, 5, 7, 5, 147, 11>>,
    <<32, 8, 8, 5, 147, 11>>, <<255, 255, 4, 5, 147, 11>> }

\* First two words of a page 0: rjmp (0xC000, 0xC005, 0xC7FF, 0xCFFF), jmp
\* to 0, 0x0123, 0x0FFF, 0x1000 and 0x2345, and no branch (0x0000).
PatchImages ==
  {[w0 |-> w, w1 |-> 4660] : w \in {49152, 49157, 51199, 53247, 0}}
  \cup {[w0 |-> JMP, w1 |-> t] : t \in {0, 291, 4095, 4096, 9029}}

\* struct pdata after a successful initialize() on each of them.
PatchInit ==
  /\ phase = "ready"
  /\ \E info \in PatchInfo :
       LET dev == Device(2, info)
       IN /\ usb_busses = <<dev>>
          /\ pdata = micronucleus_get_bootloader_info(Connected(1, dev), <<>>, {}, dev, 6).pd
  /\ lastOp = NoOp
  /\ hist = hist0

\* write_page at address 0: the reset vector of the page is captured and
\* replaced; lastOp.out is the page buffer afterwards.
PatchResetVector ==
  /\ phase = "ready" /\ lastOp = NoOp
  /\ \E img \in PatchImages :
       LET buffer == PageBuffer(img, 0, pdata.page_size, pdata.page_size)
           r == micronucleus_patch_reset_vector(pdata, buffer)
       IN /\ pdata' = r.pd
          /\ lastOp' = Op("patch_reset_vector", [NoArg EXCEPT !.mem = "flash", !.img = img],
                          Result(r.pd, <<>>, r.ret), r.buffer)
          /\ hist' = IF r.ret < 0 THEN hist
                      ELSE [hist EXCEPT !.zero = TRUE, !.vector = PageZeroRule(buffer),
                                        !.last = FALSE]
  /\ UNCHANGED <<phase, usb_busses>>

\* write_page at bootloader_start - page_size with a blank page, once a
\* page 0 was patched: lastOp.out is the page buffer afterwards.
PatchUserVector ==
  /\ phase = "ready" /\ lastOp = NoOp /\ hist.zero
  /\ LET buffer == micronucleus_patch_user_vector(pdata, Fill(pdata.page_size))
     IN /\ lastOp' = Op("patch_user_vector", NoArg, Result(pdata, <<>>, 0), buffer)
        /\ hist' = [hist EXCEPT !.last = TRUE]
  /\ UNCHANGED <<phase, usb_busses, pdata>>

PatchNext == Continue \/ PatchResetVector \/ PatchUserVector

PatchSpec == PatchInit /\ [][PatchNext]_vars

(***************************************************************************)
(* Strings: a C string is the sequence of its characters                   *)
(***************************************************************************)
str_eq(a, b) == a = b
str_starts(str, starts) ==
  Len(str) >= Len(starts) /\ SubSeq(str, 1, Len(starts)) = starts

\* strchr(str + from - 1, c): the position in str of the first c at or
\* after position from; 0: none (NULL).
strchr(str, from, c) ==
  IF \E k \in from..Len(str) : str[k] = c
    THEN CHOOSE k \in from..Len(str) : str[k] = c /\ \A j \in from..(k - 1) : str[j] # c
    ELSE 0

Digits == <<"0", "1", "2", "3", "4", "5", "6", "7", "8", "9">>
IsDigit(c) == \E k \in DOMAIN Digits : Digits[k] = c
DigitValue(c) == (CHOOSE k \in DOMAIN Digits : Digits[k] = c) - 1

\* The value of the digits of str from position i on, up to the first
\* character that is no digit.
RECURSIVE AtoiDigits(_, _, _)
AtoiDigits(str, i, acc) ==
  IF i > Len(str) \/ ~IsDigit(str[i]) THEN acc
  ELSE AtoiDigits(str, i + 1, acc * 10 + DigitValue(str[i]))

\* atoi(str + from - 1): blanks are skipped, a sign is taken, the digits
\* that follow are the value; 0 when there are none.
RECURSIVE atoi(_, _)
atoi(str, from) ==
  IF from > Len(str) THEN 0
  ELSE IF str[from] = " " THEN atoi(str, from + 1)
  ELSE IF str[from] = "-" THEN -AtoiDigits(str, from + 1, 0)
  ELSE IF str[from] = "+" THEN AtoiDigits(str, from + 1, 0)
  ELSE AtoiDigits(str, from, 0)

(***************************************************************************)
(* Extended parameters                                                     *)
(***************************************************************************)
\* libavrdude.h: the return value that ends the program without error.
LIBAVRDUDE_EXIT == -4

StrWait == <<"w", "a", "i", "t">>
StrWaitEq == <<"w", "a", "i", "t", "=">>
StrHelp == <<"h", "e", "l", "p">>

\* for(node = lfirst(xparams); node; node = lnext(node)): the list from
\* entry i on.
RECURSIVE ParseExtParamsFrom(_, _, _)
ParseExtParamsFrom(pd, xparams, i) ==
  IF i > Len(xparams) THEN Result(pd, <<>>, 0)
  ELSE LET extended_param == xparams[i]
       IN IF str_eq(extended_param, StrWait)
            THEN ParseExtParamsFrom([pd EXCEPT !.wait_until_device_present = TRUE,
                                               !.wait_timout = -1], xparams, i + 1)
          ELSE IF str_starts(extended_param, StrWaitEq)
            THEN ParseExtParamsFrom([pd EXCEPT !.wait_until_device_present = TRUE,
                                               !.wait_timout = atoi(extended_param, 6)],
                                    xparams, i + 1)
          ELSE IF str_eq(extended_param, StrHelp) THEN Result(pd, <<>>, LIBAVRDUDE_EXIT)
          ELSE Result(pd, <<>>, -1)

micronucleus_parseextparams(pd, xparams) == ParseExtParamsFrom(pd, xparams, 1)

(***************************************************************************)
(* Device discovery (open)                                                 *)
(***************************************************************************)
\* Bounds of the discovery model: the clock (seconds since open() began)
\* is followed up to MaxElapsed, the scans of one open() are counted up to
\* MaxScans.
MaxElapsed == 3
MaxScans == 3

StrUsb == <<"u", "s", "b">>

\* A variant of ParseLocator that takes usb:<bus> for a locator without
\* device name; C14 tells the two apart.
ParseLocator_BusOnly(port) ==
  IF str_eq(port, StrUsb)
    THEN [given |-> FALSE, has_dev |-> FALSE, bus_name |-> <<>>, dev_name |-> <<>>]
  ELSE IF str_starts(port, StrUsb) /\ Len(port) >= 4 /\ port[4] = ":"
    THEN LET colon == strchr(port, 5, ":")
         IN IF colon = 0
              THEN [given |-> TRUE, has_dev |-> TRUE,
                    bus_name |-> SubSeq(port, 5, Len(port)), dev_name |-> <<>>]
              ELSE [given |-> TRUE, has_dev |-> TRUE,
                    bus_name |-> SubSeq(port, 5, colon - 1),
                    dev_name |-> SubSeq(port, colon + 1, Len(port))]
  ELSE [given |-> TRUE, has_dev |-> FALSE, bus_name |-> <<>>, dev_name |-> <<>>]

\* The -P option as open() takes it apart: given is port != NULL after
\* the comparison with "usb", has_dev is dev_name != NULL.
ParseLocator(port) ==
  IF str_eq(port, StrUsb)
    THEN [given |-> FALSE, has_dev |-> FALSE, bus_name |-> <<>>, dev_name |-> <<>>]
  ELSE IF str_starts(port, StrUsb) /\ Len(port) >= 4 /\ port[4] = ":"
    THEN LET colon == strchr(port, 5, ":")
         IN IF colon = 0
              THEN [given |-> TRUE, has_dev |-> FALSE,
                    bus_name |-> SubSeq(port, 5, Len(port)), dev_name |-> <<>>]
              ELSE [given |-> TRUE, has_dev |-> TRUE,
                    bus_name |-> SubSeq(port, 5, colon - 1),
                    dev_name |-> SubSeq(port, colon + 1, Len(port))]
  ELSE [given |-> TRUE, has_dev |-> FALSE, bus_name |-> <<>>, dev_name |-> <<>>]

\* int vid = pgm->usbvid? pgm->usbvid: MICRONUCLEUS_VID
SearchedVid(usbvid) == IF usbvid # 0 THEN usbvid ELSE MICRONUCLEUS_VID
\* The first entry of pgm->usbpid, if any.
SearchedPid(usbpid) == IF usbpid # <<>> THEN usbpid[1] ELSE MICRONUCLEUS_PID

\* What the environment does to one scan: device number dev is faulty in
\* the given way ("deaf": usb_open for the probe fails; "mute": the INFO
\* probe fails; "curt": the probe returns 3 bytes; "refuse": the usb_open
\* that retains it fails); dev 0: no fault.
NoFault == [dev |-> 0, kind |-> "none"]
Faulty(fault, i, kind) == fault.dev = i /\ fault.kind = kind

\* A variant of micronucleus_is_device_responsive that closes the probe
\* connection only if the probe succeeded; C15 tells the two apart.
micronucleus_is_device_responsive_Leaky(pd, log, i, fault) ==
  IF Faulty(fault, i, "deaf")
    THEN [pd |-> [pd EXCEPT !.usb_handle = NULL],
          log |-> Append(log, Ev("open", 0, i, 0, <<>>, NULL)),
          responsive |-> FALSE]
    ELSE LET opened == Append(log, Ev("open", 0, i, 0, <<>>, i))
             fail == IF Faulty(fault, i, "mute")
                       THEN {[at |-> NumReq(opened) + 1, code |-> EPIPE]} ELSE {}
             got == IF Faulty(fault, i, "curt") THEN 3 ELSE 6
             probed == micronucleus_check_connection(pd, opened, fail, got)
         IN [pd |-> [pd EXCEPT !.usb_handle = NULL],
             log |-> IF CheckResult(pd, probed) >= 0
                       THEN Append(probed, Ev("close", 0, i, 0, <<>>, 0)) ELSE probed,
             responsive |-> CheckResult(pd, probed) >= 0]

\* pd, log and the verdict of the probe of device i.  The connection
\* opened for the probe is closed again.
micronucleus_is_device_responsive(pd, log, i, fault) ==
  IF Faulty(fault, i, "deaf")
    THEN [pd |-> [pd EXCEPT !.usb_handle = NULL],
          log |-> Append(log, Ev("open", 0, i, 0, <<>>, NULL)),
          responsive |-> FALSE]
    ELSE LET opened == Append(log, Ev("open", 0, i, 0, <<>>, i))
             fail == IF Faulty(fault, i, "mute")
                       THEN {[at |-> NumReq(opened) + 1, code |-> EPIPE]} ELSE {}
             got == IF Faulty(fault, i, "curt") THEN 3 ELSE 6
             probed == micronucleus_check_connection(pd, opened, fail, got)
         IN [pd |-> [pd EXCEPT !.usb_handle = NULL],
             log |-> Append(probed, Ev("close", 0, i, 0, <<>>, 0)),
             responsive |-> CheckResult(pd, probed) >= 0]

\* A variant of ScanFrom that does not compare the names with the
\* locator; C12 tells the two apart.
RECURSIVE ScanFrom_AnyName(_, _, _, _, _, _, _, _)
ScanFrom_AnyName(pd, log, busses, loc, vid, pid, fault, i) ==
  IF i > Len(busses) \/ pd.usb_handle # NULL THEN Result(pd, log, 0)
  ELSE LET device == busses[i]
           versioned == [pd EXCEPT !.major_version = U8(device.bcdDevice \div 256),
                                   !.minor_version = U8(device.bcdDevice)]
           probe == micronucleus_is_device_responsive(versioned, log, i, fault)
       IN IF ~(device.idVendor = vid /\ device.idProduct = pid)
            THEN ScanFrom_AnyName(pd, log, busses, loc, vid, pid, fault, i + 1)
          ELSE IF ~probe.responsive
            THEN ScanFrom_AnyName(probe.pd, probe.log, busses, loc, vid, pid, fault, i + 1)
          ELSE IF probe.pd.major_version > MICRONUCLEUS_MAX_MAJOR_VERSION
            THEN ScanFrom_AnyName(probe.pd, probe.log, busses, loc, vid, pid, fault, i + 1)
          ELSE LET handle == IF Faulty(fault, i, "refuse") THEN NULL ELSE i
               IN ScanFrom_AnyName([probe.pd EXCEPT !.usb_handle = handle],
                                   Append(probe.log, Ev("open", 0, i, 0, <<>>, handle)),
                                   busses, loc, vid, pid, fault, i + 1)

\* A variant of ScanFrom that retains a device without the version it
\* stored for it, keeping what pdata held before; C26 tells the two apart.
RECURSIVE ScanFrom_StaleVersion(_, _, _, _, _, _, _, _)
ScanFrom_StaleVersion(pd, log, busses, loc, vid, pid, fault, i) ==
  IF i > Len(busses) \/ pd.usb_handle # NULL THEN Result(pd, log, 0)
  ELSE LET device == busses[i]
           versioned == [pd EXCEPT !.major_version = U8(device.bcdDevice \div 256),
                                   !.minor_version = U8(device.bcdDevice)]
           probe == micronucleus_is_device_responsive(versioned, log, i, fault)
       IN IF ~(device.idVendor = vid /\ device.idProduct = pid)
            THEN ScanFrom_StaleVersion(pd, log, busses, loc, vid, pid, fault, i + 1)
          ELSE IF ~probe.responsive
            THEN ScanFrom_StaleVersion(probe.pd, probe.log, busses, loc, vid, pid, fault, i + 1)
          ELSE IF loc.given /\ (\/ ~loc.has_dev
                                 \/ ~str_eq(device.dirname, loc.bus_name)
                                 \/ ~str_eq(device.filename, loc.dev_name))
            THEN ScanFrom_StaleVersion(probe.pd, probe.log, busses, loc, vid, pid, fault, i + 1)
          ELSE IF probe.pd.major_version > MICRONUCLEUS_MAX_MAJOR_VERSION
            THEN ScanFrom_StaleVersion(probe.pd, probe.log, busses, loc, vid, pid, fault, i + 1)
          ELSE LET handle == IF Faulty(fault, i, "refuse") THEN NULL ELSE i
               IN ScanFrom_StaleVersion(
                    [probe.pd EXCEPT !.usb_handle = handle,
                                     !.major_version = pd.major_version,
                                     !.minor_version = pd.minor_version],
                    Append(probe.log, Ev("open", 0, i, 0, <<>>, handle)),
                    busses, loc, vid, pid, fault, i + 1)

\* The two loops over usb_busses, from device i on: they end at the first
\* device that is retained.
RECURSIVE ScanFrom(_, _, _, _, _, _, _, _)
ScanFrom(pd, log, busses, loc, vid, pid, fault, i) ==
  IF i > Len(busses) \/ pd.usb_handle # NULL THEN Result(pd, log, 0)
  ELSE LET device == busses[i]
           versioned == [pd EXCEPT !.major_version = U8(device.bcdDevice \div 256),
                                   !.minor_version = U8(device.bcdDevice)]
           probe == micronucleus_is_device_responsive(versioned, log, i, fault)
       IN IF ~(device.idVendor = vid /\ device.idProduct = pid)
            THEN ScanFrom(pd, log, busses, loc, vid, pid, fault, i + 1)
          ELSE IF ~probe.responsive
            THEN ScanFrom(probe.pd, probe.log, busses, loc, vid, pid, fault, i + 1)
          ELSE IF loc.given /\ (\/ ~loc.has_dev
                                 \/ ~str_eq(device.dirname, loc.bus_name)
                                 \/ ~str_eq(device.filename, loc.dev_name))
            THEN ScanFrom(probe.pd, probe.log, busses, loc, vid, pid, fault, i + 1)
          ELSE IF probe.pd.major_version > MICRONUCLEUS_MAX_MAJOR_VERSION
            THEN ScanFrom(probe.pd, probe.log, busses, loc, vid, pid, fault, i + 1)
          ELSE LET handle == IF Faulty(fault, i, "refuse") THEN NULL ELSE i
               IN ScanFrom([probe.pd EXCEPT !.usb_handle = handle],
                           Append(probe.log, Ev("open", 0, i, 0, <<>>, handle)),
                           busses, loc, vid, pid, fault, i + 1)

\* A variant of OpenRound for which a negative timeout has elapsed at
\* once; C13 tells the two apart.
OpenRound_NoIndefinite(pd, busses, loc, vid, pid, fault, show_retry_message, elapsed) ==
  LET scanned == ScanFrom([pd EXCEPT !.usb_handle = NULL],
                          <<Ev("scan", 0, 0, 0, <<>>, 0)>>,
                          busses, loc, vid, pid, fault, 1)
      waiting == scanned.pd.usb_handle = NULL /\ pd.wait_until_device_present
      noticed == IF waiting /\ show_retry_message
                   THEN Append(scanned.log, Ev("notice", 0, pd.wait_timout, 0, <<>>, 0))
                   ELSE scanned.log
  IN IF waiting /\ elapsed < pd.wait_timout
       THEN Result(scanned.pd, delay_ms(noticed, MICRONUCLEUS_CONNECT_WAIT), 1)
       ELSE Result(scanned.pd, noticed, 0)

\* One round of for(;;): the buses are enumerated and scanned; ret 0: a
\* device was retained or the wait is over (break), ret 1: the round ends
\* with delay_ms and continue.  show_retry_message tells whether the
\* waiting notice is still due; elapsed is time(NULL) - start_time when
\* the round looks at the clock.
OpenRound(pd, busses, loc, vid, pid, fault, show_retry_message, elapsed) ==
  LET scanned == ScanFrom([pd EXCEPT !.usb_handle = NULL],
                          <<Ev("scan", 0, 0, 0, <<>>, 0)>>,
                          busses, loc, vid, pid, fault, 1)
      waiting == scanned.pd.usb_handle = NULL /\ pd.wait_until_device_present
      noticed == IF waiting /\ show_retry_message
                   THEN Append(scanned.log, Ev("notice", 0, pd.wait_timout, 0, <<>>, 0))
                   ELSE scanned.log
  IN IF waiting /\ (pd.wait_timout < 0 \/ elapsed < pd.wait_timout)
       THEN Result(scanned.pd, delay_ms(noticed, MICRONUCLEUS_CONNECT_WAIT), 1)
       ELSE Result(scanned.pd, noticed, 0)

(***************************************************************************)
(* Inputs of discovery                                                     *)
(***************************************************************************)
\* A device on a bus, with the names libusb gives the bus and the device.
BusDevice(dirname, filename, vid, pid, major, info) ==
  [idVendor |-> vid, idProduct |-> pid, bcdDevice |-> major * 256 + 3,
   info |-> info, dirname |-> dirname, filename |-> filename]

Name001 == <<"0", "0", "1">>
Name002 == <<"0", "0", "2">>
Name003 == <<"0", "0", "3">>
Name004 == <<"0", "0", "4">>
Name005 == <<"0", "0", "5">>
FourPages == <<0, 16, 4, 133, 147, 11>>

\* What the buses may hold when they are enumerated: nothing; one V2
\* device 001:004; a device with other ids (those of a custom -c entry)
\* at 001:003, then V2 devices 001:005 and 001:004; a V3 device 001:004
\* and a V1 device 002:004.
BusLists ==
  { <<>>,
    <<BusDevice(Name001, Name004, MICRONUCLEUS_VID, MICRONUCLEUS_PID, 2, FourPages)>>,
    <<BusDevice(Name001, Name003, 4660, 2457, 2, FourPages),
      BusDevice(Name001, Name005, MICRONUCLEUS_VID, MICRONUCLEUS_PID, 2, FourPages),
      BusDevice(Name001, Name004, MICRONUCLEUS_VID, MICRONUCLEUS_PID, 2, FourPages)>>,
    <<BusDevice(Name001, Name004, MICRONUCLEUS_VID, MICRONUCLEUS_PID, 3, FourPages),
      BusDevice(Name002, Name004, MICRONUCLEUS_VID, MICRONUCLEUS_PID, 1, FourPages)>> }

\* pgm->usbvid and pgm->usbpid: unset, or 0x1234 with the list 0x0999,
\* 0x0753.
SearchIds == { [usbvid |-> 0, usbpid |-> <<>>],
               [usbvid |-> 4660, usbpid |-> <<2457, MICRONUCLEUS_PID>>] }

\* -P: "usb", "usb:001:004", "usb:002:004", "usb:001", "usb:", "usbx:001:004", "com1", the empty string.
Ports ==
  { <<"u", "s", "b">>,
    <<"u", "s", "b", ":", "0", "0", "1", ":", "0", "0", "4">>,
    <<"u", "s", "b", ":", "0", "0", "2", ":", "0", "0", "4">>,
    <<"u", "s", "b", ":", "0", "0", "1">>,
    <<"u", "s", "b", ":">>,
    <<"u", "s", "b", "x", ":", "0", "0", "1", ":", "0", "0", "4">>,
    <<"c", "o", "m", "1">>,
    <<>> }

Faults(busses) ==
  {NoFault} \cup [dev : DOMAIN busses, kind : {"deaf", "mute", "curt", "refuse"}]

PWait == <<"w", "a", "i", "t">>
PWait0 == <<"w", "a", "i", "t", "=", "0">>
PWait1 == <<"w", "a", "i", "t", "=", "1">>
PWait2 == <<"w", "a", "i", "t", "=", "2">>
PWaitNeg == <<"w", "a", "i", "t", "=", "-", "3">>
PWaitAbc == <<"w", "a", "i", "t", "=", "a", "b", "c">>
PWaitNone == <<"w", "a", "i", "t", "=">>
PWait1x == <<"w", "a", "i", "t", "=", "1", "x">>
PHelp == <<"h", "e", "l", "p">>
PBogus == <<"b", "o", "g", "u", "s">>
PWaiting == <<"w", "a", "i", "t", "i", "n", "g">>

\* -x lists: none, each parameter alone, and pairs in which a wait entry
\* precedes or follows another entry.
ParamLists ==
  { <<>>, <<PWait>>, <<PWait0>>, <<PWait1>>, <<PWait2>>, <<PWaitNeg>>, <<PWaitAbc>>,
    <<PWaitNone>>, <<PWait1x>>, <<PHelp>>, <<PBogus>>, <<PWaiting>>,
    <<PWait, PWait1>>, <<PWait2, PWait>>, <<PWait0, PWait2>>,
    <<PWait, PHelp>>, <<PHelp, PWait>>, <<PWait2, PBogus>>, <<PBogus, PHelp>>,
    <<PHelp, PBogus>>, <<PWaitAbc, PWait>> }

(***************************************************************************)
(* The session from setup on                                               *)
(***************************************************************************)
\* What open() keeps between two rounds of its loop.
OpenLocals(elapsed, show_retry_message, notices, scans) ==
  [elapsed |-> elapsed, show_retry_message |-> show_retry_message,
   notices |-> notices, scans |-> scans]

\* After micronucleus_setup: nothing enumerated, nothing connected.
OpenInit ==
  /\ phase = "setup"
  /\ usb_busses = <<>>
  /\ pdata = pdata0
  /\ lastOp = NoOp
  /\ hist = hist0

ParseExtParams ==
  /\ phase = "setup" /\ lastOp = NoOp
  /\ \E xparams \in ParamLists :
       LET r == micronucleus_parseextparams(pdata, xparams)
       IN /\ pdata' = r.pd
          /\ lastOp' = Op("parseextparams", [xparams |-> xparams], r, <<>>)
          /\ phase' = IF r.ret = 0 THEN "parsed" ELSE "exit"
  /\ UNCHANGED <<usb_busses, hist>>

\* open() up to usb_init(): the locator is taken apart; an invalid one
\* ends the call.
OpenBegin ==
  /\ phase \in {"setup", "parsed"} /\ lastOp = NoOp
  /\ \E port \in Ports, ids \in SearchIds :
       LET loc == ParseLocator(port)
           arg == [port |-> port, usbvid |-> ids.usbvid, usbpid |-> ids.usbpid]
       IN IF loc.given /\ ~loc.has_dev
            THEN /\ lastOp' = Op("open", arg, Result(pdata, <<>>, -1),
                                 OpenLocals(0, TRUE, 0, 0))
                 /\ phase' = "openfailed"
            ELSE /\ lastOp' = Op("open", arg, Result(pdata, <<>>, 0),
                                 OpenLocals(0, TRUE, 0, 0))
                 /\ phase' = "scanning"
  /\ UNCHANGED <<usb_busses, pdata, hist>>

\* One round of the loop of open(): the buses hold any of BusLists, one
\* device at most is faulty, the clock has advanced or not.  lastOp.log is
\* the log of the round.
OpenScan ==
  /\ phase = "scanning"
  /\ \E busses \in BusLists, adv \in {0, 1} :
       \E fault \in Faults(busses) :
         LET elapsed == Min(lastOp.out.elapsed + adv, MaxElapsed)
             r == OpenRound(pdata, busses, ParseLocator(lastOp.arg.port),
                            SearchedVid(lastOp.arg.usbvid), SearchedPid(lastOp.arg.usbpid),
                            fault, lastOp.out.show_retry_message, elapsed)
             notices == Cardinality({i \in DOMAIN r.log : r.log[i].kind = "notice"})
         IN /\ usb_busses' = busses
            /\ pdata' = r.pd
            /\ lastOp' = [lastOp EXCEPT
                  !.log = r.log,
                  !.ret = IF r.ret = 0 /\ r.pd.usb_handle = NULL THEN -1 ELSE 0,
                  !.out = OpenLocals(elapsed,
                                     lastOp.out.show_retry_message /\ notices = 0,
                                     lastOp.out.notices + notices,
                                     Min(lastOp.out.scans + 1, MaxScans))]
            /\ phase' = IF r.ret = 1 THEN "scanning"
                         ELSE IF r.pd.usb_handle = NULL THEN "openfailed" ELSE "opened"
  /\ UNCHANGED hist

\* paged_write in the sessions open() set up: one page of 4 bytes at
\* address 0 that begins with a long jump.
OpenPagedWrite ==
  /\ PagedWrite
  /\ lastOp'.arg.mem = "flash" /\ lastOp'.arg.addr = 0
  /\ lastOp'.arg.page_size = 4 /\ lastOp'.arg.n_bytes = 4
  /\ lastOp'.arg.img.w0 = JMP

OpenNext ==
  \/ Continue \/ ParseExtParams \/ OpenBegin \/ OpenScan
  \/ Initialize \/ ChipErase \/ OpenPagedWrite \/ Powerdown \/ Close

OpenSpec == OpenInit /\ [][OpenNext]_vars

(***************************************************************************)
(* One page on the wire, over page sizes that are no multiple of 4         *)
(***************************************************************************)
\* Info blocks with 24 bytes of flash in pages of 4, 5, 6 and 8 bytes.
PageInfo == {<<0, 24, P, 5, 147, 11>> : P \in {4, 5, 6, 8}}

\* What lies behind the page_size bytes of the page buffer on the heap:
\* write_page_v2 reads up to three bytes of it when page_size is no
\* multiple of 4, and the allocator decides what they hold.
Slacks == {<<0, 0, 0>>, <<165, 90, 165>>}

PageInit ==
  /\ phase = "ready"
  /\ \E major \in {1, 2}, info \in PageInfo :
       LET dev == Device(major, info)
       IN /\ usb_busses = <<dev>>
          /\ pdata = micronucleus_get_bootloader_info(Connected(1, dev), <<>>, {}, dev, 6).pd
  /\ lastOp = NoOp
  /\ hist = hist0

\* write_page with a full page at address 0, at the second page or at the
\* last page; lastOp.out is the memory at buffer when it is called.
WritePage ==
  /\ phase = "ready" /\ lastOp = NoOp
  /\ \E img \in Images, slack \in Slacks,
        address \in {0, pdata.page_size, pdata.bootloader_start - pdata.page_size} :
       LET P == pdata.page_size
           page == PageBuffer(img, address, P, P)
           buffer == [i \in 1..(P + 3) |-> IF i <= P THEN page[i] ELSE slack[i - P]]
           n == NumReq(micronucleus_write_page(pdata, <<>>, {}, address, buffer, P).log)
       IN \E fail \in FailSets(n, WriteErrCodes) :
            LET r == micronucleus_write_page(pdata, <<>>, fail, address, buffer, P)
            IN /\ pdata' = r.pd
               /\ lastOp' = Op("write_page",
                               [NoArg EXCEPT !.mem = "flash", !.img = img, !.page_size = P,
                                             !.addr = address, !.n_bytes = P],
                               r, buffer)
               /\ hist' = HistAfter(hist, r.log, pdata,
                                    IF address = 0 THEN PageZeroRule(page) ELSE -1)
  /\ UNCHANGED <<phase, usb_busses>>

PageNext == Continue \/ WritePage

PageSpec == PageInit /\ [][PageNext]_vars

(***************************************************************************)
(* Properties                                                              *)
(***************************************************************************)
Returned(name) == lastOp.name = name /\ ~lastOp.crashed
V2Session == pdata.major_version >= 2

\* C1: once powerdown() has returned, write_last_page and start_program
\* are both false, whatever the session did before and whichever requests
\* failed.
C1_FlagsClearAfterPowerdown ==
  Returned("powerdown") => ~pdata.write_last_page /\ ~pdata.start_program

\* The requests of a log that belong to page writes.
PageReqs(log) ==
  ReqsOf(log, MICRONUCLEUS_CMD_TRANSFER) \cup ReqsOf(log, MICRONUCLEUS_CMD_PROGRAM)

\* C2: powerdown() entered with write_last_page set puts one page of
\* page_size bytes on the wire, addressed to bootloader_start - page_size
\* and blank (0xFF) but for the patched jump, every request of it before
\* the START request; START (command 4) goes out exactly once when
\* start_program was set at entry and never when neither flag was set.
C2_PowerdownOrdering ==
  Returned("powerdown") =>
    LET pre == lastOp.pre
        log == lastOp.log
        starts == ReqsOf(log, MICRONUCLEUS_CMD_START)
        transfers == ReqsOf(log, MICRONUCLEUS_CMD_TRANSFER)
        pages == Pages(log, pre.major_version >= 2)
    IN /\ pre.write_last_page =>
            /\ Cardinality(transfers) = 1
            /\ \A i \in transfers :
                 /\ log[i].index = U16(pre.bootloader_start - pre.page_size)
                 /\ log[i].value = pre.page_size
            /\ \A i \in PageReqs(log), j \in starts : i < j
            /\ \A k \in DOMAIN pages :
                 pages[k].complete =>
                   /\ Len(pages[k].bytes) = pre.page_size
                   /\ \A b \in 1..(pre.page_size - 4) : pages[k].bytes[b] = 255
                   /\ pre.major_version < 2 => pages[k].bytes = Fill(pre.page_size)
       /\ pre.start_program => Cardinality(starts) = 1
       /\ ~pre.write_last_page /\ ~pre.start_program => starts = {}

\* C3: in a V2 session without transport failures in which a page at
\* address 0 went out, when powerdown() returns a page at
\* bootloader_start - page_size has gone out after the most recent page 0,
\* carrying at bootloader_start - 4 a jump to the user reset vector of that
\* page 0, and START was issued after it.
C3_RunnableAfterPowerdown ==
  Returned("powerdown") /\ V2Session /\ hist.zero /\ ~hist.failed =>
    hist.last /\ ReqsOf(lastOp.log, MICRONUCLEUS_CMD_START) # {}

\* A paged write to flash that passes neither size check, or both.
RejectedWrite ==
  /\ lastOp.name = "paged_write" /\ lastOp.arg.mem = "flash"
  /\ \/ lastOp.arg.addr + lastOp.arg.n_bytes > lastOp.pre.flash_size
     \/ lastOp.arg.n_bytes > lastOp.arg.page_size
AcceptedWrite ==
  /\ Returned("paged_write") /\ lastOp.arg.mem = "flash"
  /\ lastOp.arg.addr + lastOp.arg.n_bytes <= lastOp.pre.flash_size
  /\ lastOp.arg.n_bytes <= lastOp.arg.page_size

\* C4: a paged write to flash with addr + n_bytes > flash_size, or with
\* n_bytes greater than the caller's page size, returns an error, issues
\* no control request and leaves write_last_page, start_program and
\* user_reset_vector as they were.
C4_BoundsRejection ==
  RejectedWrite =>
    /\ ~lastOp.crashed
    /\ lastOp.ret < 0
    /\ lastOp.log = <<>>
    /\ pdata.write_last_page = lastOp.pre.write_last_page
    /\ pdata.start_program = lastOp.pre.start_program
    /\ pdata.user_reset_vector = lastOp.pre.user_reset_vector

\* A write beyond flash_size, of a size the caller's page size allows, is
\* rejected while both flags are pending.
C4_Witness ==
  /\ RejectedWrite
  /\ lastOp.arg.n_bytes <= lastOp.arg.page_size
  /\ lastOp.arg.n_bytes >= 1
  /\ lastOp.pre.write_last_page /\ lastOp.pre.start_program
  /\ lastOp.ret = -1

\* Byte b (1-based) of the k-th page of the write as the caller handed it
\* in: mem->buf up to n_bytes, 0xFF beyond.
CallerByte(k, b) ==
  LET i == (k - 1) * lastOp.pre.page_size + b
  IN IF i <= lastOp.arg.n_bytes THEN MemByte(lastOp.arg.img, lastOp.arg.addr + i - 1)
     ELSE 255

\* Bytes of a page that V2 replaces by a jump: the first two words of the
\* page at address 0, the last two words of a page from
\* bootloader_start - page_size on.
PatchedByte(addr, b) ==
  /\ lastOp.pre.major_version >= 2
  /\ \/ addr = 0 /\ b <= 4
     \/ IsLastPageAddress(lastOp.pre, addr) /\ b > lastOp.pre.page_size - 4

\* The pages of the last operation are ceil(S / P) complete pages of P
\* bytes at addr, addr + P, ... whose bytes, but for those exempt, are
\* the caller's followed by 0xFF fill.
Chunked(exempt(_, _)) ==
  LET P == lastOp.pre.page_size
      n == (lastOp.arg.n_bytes + P - 1) \div P
      pages == Pages(lastOp.log, lastOp.pre.major_version >= 2)
  IN /\ Len(pages) = n
     /\ \A k \in 1..n :
          /\ pages[k].complete
          /\ pages[k].addr = lastOp.arg.addr + (k - 1) * P
          /\ pages[k].size = P
          /\ Len(pages[k].bytes) = P
          /\ \A b \in 1..P :
               exempt(pages[k].addr, b) \/ pages[k].bytes[b] = CallerByte(k, b)

NeverExempt(addr, b) == FALSE

C10_EraseErrorPolicy ==
  Returned("chip_erase") =>
    LET log == lastOp.log
        result == log[1].ret
    IN /\ IsCmd(log[1], MICRONUCLEUS_CMD_ERASE)
       /\ result \in {-EIO, -EPIPE} =>
            /\ Len(log) >= 3
            /\ log[2] = Ev("sleep", 0, lastOp.pre.erase_sleep, 0, <<>>, 0)
            /\ IsCmd(log[3], MICRONUCLEUS_CMD_INFO)
            /\ CheckResult(lastOp.pre, SubSeq(log, 1, 3)) = 0 =>
                 lastOp.ret = 0 /\ Len(log) = 3
       /\ result < 0 /\ result \notin {-EIO, -EPIPE} =>
            lastOp.ret = result /\ log = <<log[1]>>

\* ERASE came back with a broken pipe, the probe succeeded and so did
\* chip_erase.
C10_Witness ==
  /\ Returned("chip_erase")
  /\ lastOp.log[1].ret = -EPIPE
  /\ Len(lastOp.log) = 3
  /\ lastOp.ret = 0

\* C6 (as stated): after a successful initialize() on an info block with
\* a page size >= 1, V1 or V2, pages equals ceil(flash_size / page_size)
\* and bootloader_start equals pages * page_size as mathematical integers.
C6_Geometry ==
  Returned("initialize") /\ lastOp.ret = 0 /\ Dev.info[3] >= 1 =>
    LET flash_size == Dev.info[1] * 256 + Dev.info[2]
        page_size == Dev.info[3]
    IN /\ pdata.pages = (flash_size + page_size - 1) \div page_size
       /\ pdata.bootloader_start = pdata.pages * page_size

\* C7 (as stated): after a successful V2 initialize(), write_sleep is
\* (byte4 & 127) + 2; erase_sleep is (write_sleep * pages) / 4 when bit 7
\* of byte4 is set and write_sleep * pages when it is clear.
C7_TimingDecode ==
  Returned("initialize") /\ lastOp.ret = 0 /\ lastOp.pre.major_version >= 2 =>
    LET byte4 == Dev.info[4]
    IN /\ pdata.write_sleep = (byte4 % 128) + 2
       /\ pdata.erase_sleep =
            IF byte4 >= 128 THEN (pdata.write_sleep * pdata.pages) \div 4
            ELSE pdata.write_sleep * pdata.pages

\* Scenario A: the V1 info block 0x10, 0x00, 0x40, 0x02.
ScenarioA ==
  lastOp.pre.major_version = 1 /\ SubSeq(Dev.info, 1, 4) = <<16, 0, 64, 2>>

\* What scenario A yields, with signature bytes s1, s2.
ScenarioAYields(s1, s2) ==
  /\ Returned("initialize") /\ lastOp.ret = 0 /\ ScenarioA =>
       /\ pdata.flash_size = 4096 /\ pdata.page_size = 64
       /\ pdata.write_sleep = 2 /\ pdata.pages = 64
       /\ pdata.bootloader_start = 4096
       /\ pdata.signature1 = s1 /\ pdata.signature2 = s2
  /\ Returned("read_sig_bytes") /\ lastOp.ret = 0 /\ ScenarioA =>
       lastOp.out = <<30, s1, s2>>

\* C8 (as stated): scenario A yields flash_size 4096, page_size 64,
\* write_sleep 2, pages 64, bootloader_start 4096 and the signature bytes
\* 0x93, 0x0B; read_sig_bytes then returns 0x1E, 0x93, 0x0B.
C8_ScenarioAAsStated == ScenarioAYields(147, 11)

\* C8 (amended): scenario A yields flash_size 4096, page_size 64,
\* write_sleep 2, pages 64, bootloader_start 4096 and the signature bytes
\* 0x92, 0x06 (the ATtiny45 branch: 4096 is not above 4096);
\* read_sig_bytes then returns 0x1E, 0x92, 0x06.
C8_ScenarioA == ScenarioAYields(146, 6)

\* read_sig_bytes has returned the signature of scenario A.
C8_Witness ==
  /\ Returned("read_sig_bytes") /\ lastOp.ret = 0 /\ ScenarioA
  /\ pdata.flash_size = 4096 /\ pdata.bootloader_start = 4096
  /\ lastOp.out = <<30, 146, 6>>

\* The last two words of the last page as patch_user_vector left them.
UserJump == SubSeq(lastOp.out, lastOp.pre.page_size - 3, lastOp.pre.page_size)

\* Word address of bootloader_start - 4.
UserJumpAt == U16(lastOp.pre.bootloader_start - 4) \div 2

\* C9 (as stated): after page 0 (a long or a relative jump) and then the
\* last page were patched, the branch at bootloader_start - 4, decoded by
\* the rule used on page 0 (long jump: second word; relative jump:
\* (word & 0x0FFF) + 1), yields the user reset vector of page 0.
C9_RoundTripAsStated ==
  Returned("patch_user_vector") => PageZeroRule(UserJump) = hist.vector

\* C9 (amended): after page 0 (a long or a relative jump) and then the
\* last page were patched, the branch at bootloader_start - 4 is a long
\* jump whose second word is the user reset vector of page 0 when
\* bootloader_start - 4 > 0x2000, and otherwise a relative jump that,
\* taken from its own word address (bootloader_start - 4) / 2, leads to
\* the user reset vector modulo 4096 words:
\* ((bootloader_start - 4) / 2 + 1 + (word & 0x0FFF)) mod 4096.
C9_RoundTrip ==
  Returned("patch_user_vector") =>
    /\ JumpsTo(UserJump, 0, UserJumpAt, hist.vector)
    /\ IsLongJump(UserJump, 0) <=> U16(lastOp.pre.bootloader_start - 4) > LongJumpLimit

\* The round trip of a relative jump (0xC005) with bootloader_start - 4
\* at exactly 0x2000, where the last page gets a relative jump.
C9_Witness ==
  /\ Returned("patch_user_vector")
  /\ U16(lastOp.pre.bootloader_start - 4) = LongJumpLimit
  /\ hist.vector = 6
  /\ IsRelJump(UserJump, 0)

\* Positions of the events of a kind in a log.
EventsOf(log, kind) == {i \in DOMAIN log : log[i].kind = kind}

\* The post-erase probe of a chip_erase log (its position; 0: none) and
\* whether it was answered in full.
ProbeAt(log) ==
  IF ReqsOf(log, MICRONUCLEUS_CMD_INFO) = {} THEN 0
  ELSE CHOOSE i \in ReqsOf(log, MICRONUCLEUS_CMD_INFO) : TRUE
ProbeOk(log) ==
  ProbeAt(log) # 0 /\ CheckResult(lastOp.pre, SubSeq(log, 1, ProbeAt(log))) = 0

\* C11: when the post-erase probe fails, chip_erase closes the handle and
\* tries to reopen the same device at most 25 times, with a fixed delay
\* after every failed attempt; it returns success at the first attempt
\* that succeeds, making no further one, and failure only after 25 failed
\* attempts; when the probe succeeds there is no reconnect attempt.
C11_ReconnectBound ==
  Returned("chip_erase") =>
    LET log == lastOp.log
        opens == EventsOf(log, "open")
        closes == EventsOf(log, "close")
        failed == {i \in opens : log[i].ret = NULL}
    IN /\ Cardinality(ReqsOf(log, MICRONUCLEUS_CMD_INFO)) <= 1
       /\ Cardinality(opens) <= ReconnectTries
       /\ ProbeAt(log) = 0 \/ ProbeOk(log) => opens = {} /\ closes = {}
       /\ ProbeAt(log) # 0 /\ ~ProbeOk(log) =>
            /\ closes = {ProbeAt(log) + 1}
            /\ opens # {}
            /\ \A i \in opens : i > ProbeAt(log) + 1
            /\ \A i \in opens \ failed : log[i].ret = lastOp.pre.usb_handle
            /\ \A i \in failed :
                 i < Len(log) /\ log[i + 1] = Ev("sleep", 0, MICRONUCLEUS_CONNECT_WAIT, 0, <<>>, 0)
            /\ lastOp.ret = 0 <=>
                 /\ Len(log) \in opens \ failed
                 /\ opens \ failed = {Len(log)}
            /\ lastOp.ret = 0 => pdata.usb_handle = lastOp.pre.usb_handle
            /\ lastOp.ret # 0 <=> Cardinality(failed) = ReconnectTries
            /\ lastOp.ret # 0 => lastOp.ret = -1 /\ pdata.usb_handle = NULL

\* The reconnect succeeded at the 25th attempt.
C11_Witness ==
  /\ Returned("chip_erase") /\ lastOp.ret = 0
  /\ Cardinality(EventsOf(lastOp.log, "open")) = ReconnectTries
  /\ pdata.usb_handle # NULL

\* open() is in or past a round of its loop / has returned.
OpenRoundDone == lastOp.name = "open" /\ lastOp.out.scans >= 1
OpenReturned == lastOp.name = "open" /\ phase \in {"opened", "openfailed"}
OpenLocator == ParseLocator(lastOp.arg.port)

\* Device i of the buses has the searched ids.
Candidate(i) ==
  /\ usb_busses[i].idVendor = SearchedVid(lastOp.arg.usbvid)
  /\ usb_busses[i].idProduct = SearchedPid(lastOp.arg.usbpid)

\* Device i has the names of the locator, if one was given.
Located(i) ==
  OpenLocator.given =>
    /\ usb_busses[i].dirname = OpenLocator.bus_name
    /\ usb_busses[i].filename = OpenLocator.dev_name

\* The round opened a connection to device i, or tried to.
Examined(i) ==
  \E k \in EventsOf(lastOp.log, "open") : lastOp.log[k].value = i

\* Device i answered the INFO probe of the round in full.
Answered(i) ==
  \E k \in EventsOf(lastOp.log, "open") :
    /\ lastOp.log[k].value = i /\ lastOp.log[k].ret = i
    /\ k + 2 <= Len(lastOp.log)
    /\ IsCmd(lastOp.log[k + 1], MICRONUCLEUS_CMD_INFO)
    /\ lastOp.log[k + 1].ret = (IF usb_busses[i].bcdDevice \div 256 >= 2 THEN 6 ELSE 4)
    /\ lastOp.log[k + 2].kind = "close"

\* C12: whenever open() succeeds, the retained device has the searched
\* vendor and product id, answered the INFO probe, has a major version
\* <= 2 and, when a locator usb:<bus>:<device> was given, exactly that bus
\* and device name; every candidate before it was examined, and in a round
\* that retains no device every candidate is examined: a rejection does
\* not end the scan.
C12_DiscoverySelection ==
  /\ OpenReturned /\ lastOp.ret = 0 =>
       LET h == pdata.usb_handle
       IN /\ phase = "opened" /\ h \in DOMAIN usb_busses
          /\ Candidate(h) /\ Answered(h) /\ Located(h)
          /\ usb_busses[h].bcdDevice \div 256 <= MICRONUCLEUS_MAX_MAJOR_VERSION
          /\ pdata.major_version = usb_busses[h].bcdDevice \div 256
          /\ \A i \in 1..(h - 1) : Candidate(i) => Examined(i)
  /\ OpenRoundDone /\ pdata.usb_handle = NULL =>
       \A i \in DOMAIN usb_busses : Candidate(i) => Examined(i)

\* Scenario C: with the locator usb:001:004 the responsive V2 device
\* 001:005 was probed and passed over, the device 001:004 behind it was
\* retained.
C12_Witness ==
  /\ OpenReturned /\ lastOp.ret = 0
  /\ lastOp.arg.port = <<"u", "s", "b", ":", "0", "0", "1", ":", "0", "0", "4">>
  /\ Len(usb_busses) = 3 /\ pdata.usb_handle = 3
  /\ usb_busses[2].filename = Name005 /\ Candidate(2) /\ Answered(2)
  /\ usb_busses[2].bcdDevice \div 256 = 2

\* What holds of the wait loop in every state.
WaitLoopSafe ==
  /\ lastOp.name = "open" => lastOp.out.notices <= 1
  /\ OpenRoundDone /\ phase = "scanning" =>
       /\ pdata.wait_until_device_present /\ pdata.usb_handle = NULL
       /\ pdata.wait_timout < 0 \/ lastOp.out.elapsed < pdata.wait_timout
       /\ lastOp.log[Len(lastOp.log)] = Ev("sleep", 0, MICRONUCLEUS_CONNECT_WAIT, 0, <<>>, 0)
  /\ OpenRoundDone /\ OpenReturned =>
       /\ lastOp.ret = 0 <=> pdata.usb_handle # NULL
       /\ lastOp.ret # 0 => lastOp.ret = -1
       /\ ~pdata.wait_until_device_present =>
            lastOp.out.scans = 1 /\ lastOp.out.notices = 0
       /\ pdata.wait_until_device_present /\ lastOp.ret # 0 =>
            /\ pdata.wait_timout >= 0
            /\ lastOp.out.elapsed >= pdata.wait_timout
            /\ lastOp.out.notices = 1

\* C13: with wait disabled open() makes exactly one scan and fails with
\* -1 if it retained no device; with wait enabled and a timeout T >= 0 it
\* goes on to another scan only while no device is retained and the
\* elapsed time is below T, and fails only once the elapsed time has
\* reached T; with wait enabled and a negative timeout it never returns
\* without a device.  The waiting notice is emitted at most once per
\* open().
C13_WaitLoop == WaitLoopSafe

\* open() has failed after waiting: several rounds, one notice, the
\* timeout of 2 seconds reached.
C13_Witness ==
  /\ OpenReturned /\ lastOp.ret = -1
  /\ pdata.wait_until_device_present /\ pdata.wait_timout = 2
  /\ lastOp.out.scans >= 2 /\ lastOp.out.elapsed = 2 /\ lastOp.out.notices = 1

\* A locator of the form usb or usb:<bus>:<device>.
WellFormedLocator(port) ==
  \/ port = <<"u", "s", "b">>
  \/ /\ Len(port) >= 5
     /\ SubSeq(port, 1, 4) = <<"u", "s", "b", ":">>
     /\ \E k \in 5..Len(port) : port[k] = ":"

\* C14: open() accepts only the locator usb or usb:<bus>:<device>; for
\* any other locator it returns -1 before it enumerates the buses, probes
\* or opens any device, and a locator of either form is not turned down.
C14_LocatorValidation ==
  lastOp.name = "open" =>
    /\ ~WellFormedLocator(lastOp.arg.port) =>
         /\ phase = "openfailed" /\ lastOp.ret = -1
         /\ lastOp.log = <<>> /\ lastOp.out.scans = 0
         /\ usb_busses = <<>>
         /\ pdata = lastOp.pre
    /\ WellFormedLocator(lastOp.arg.port) /\ OpenReturned => lastOp.out.scans >= 1

\* open() has turned down usb:001, a locator without device name.
C14_Witness ==
  /\ OpenReturned /\ lastOp.ret = -1
  /\ lastOp.arg.port = <<"u", "s", "b", ":", "0", "0", "1">>
  /\ lastOp.log = <<>>

\* Connections open after the first k events of the last operation, which
\* began with one connection open if the handle was not null: every
\* usb_open that succeeds adds one, every usb_close takes one away.
OpenedIn(log, k) == {i \in 1..k : log[i].kind = "open" /\ log[i].ret # NULL}
ClosedIn(log, k) == {i \in 1..k : log[i].kind = "close"}
Connections(k) ==
  (IF lastOp.pre.usb_handle # NULL THEN 1 ELSE 0)
  + Cardinality(OpenedIn(lastOp.log, k)) - Cardinality(ClosedIn(lastOp.log, k))

\* C15: at every point of a session at most one USB connection is open,
\* and it is the one the stored handle stands for; every probe connection
\* of the discovery is closed right after the probe, whatever its
\* outcome; after open() has failed no connection is open; after close()
\* no connection is open and the stored handle is null.
C15_HandleOwnership ==
  lastOp # NoOp /\ ~lastOp.crashed =>
    LET log == lastOp.log
    IN /\ \A k \in 0..Len(log) : Connections(k) \in {0, 1}
       /\ Connections(Len(log)) = (IF pdata.usb_handle # NULL THEN 1 ELSE 0)
       /\ lastOp.name = "open" =>
            /\ lastOp.pre.usb_handle = NULL
            /\ \A k \in OpenedIn(log, Len(log)) :
                 \/ k = Len(log) /\ pdata.usb_handle = log[k].ret
                 \/ /\ k + 2 <= Len(log)
                    /\ IsCmd(log[k + 1], MICRONUCLEUS_CMD_INFO)
                    /\ log[k + 2].kind = "close"
            /\ OpenReturned /\ lastOp.ret # 0 => pdata.usb_handle = NULL
       /\ lastOp.name = "close" => pdata.usb_handle = NULL

\* open() has retained the third device after two probes, one of them
\* unanswered, and the probe of the third.
C15_Witness ==
  /\ OpenReturned /\ lastOp.ret = 0 /\ pdata.usb_handle = 3
  /\ Cardinality(OpenedIn(lastOp.log, Len(lastOp.log))) >= 3
  /\ Cardinality(ClosedIn(lastOp.log, Len(lastOp.log))) >= 2
  /\ \E k \in ReqsOf(lastOp.log, MICRONUCLEUS_CMD_INFO) : lastOp.log[k].ret < 0

\* The fields initialize() derives from the info block.
Geometry(pd) ==
  <<pd.flash_size, pd.page_size, pd.pages, pd.bootloader_start,
    pd.write_sleep, pd.erase_sleep, pd.signature1, pd.signature2>>

\* The size of the variant's info block.
InfoBlockSize(pd) == IF pd.major_version >= 2 THEN 6 ELSE 4

\* C16: if the INFO request fails or returns fewer bytes than the
\* variant's block size (4 for V1, 6 for V2), initialize() returns an
\* error after exactly one INFO request and leaves flash_size, page_size,
\* pages, bootloader_start, write_sleep, erase_sleep, signature1 and
\* signature2 as they were.
C16_InfoFailureTerminal ==
  Returned("initialize") /\ lastOp.log[1].ret < InfoBlockSize(lastOp.pre) =>
    /\ lastOp.ret < 0
    /\ Len(lastOp.log) = 1 /\ IsCmd(lastOp.log[1], MICRONUCLEUS_CMD_INFO)
    /\ Geometry(pdata) = Geometry(lastOp.pre)
    /\ phase = "initfailed"

\* A V2 device answered INFO with 5 bytes, of a block that is not all
\* zero, and initialize() failed.
C16_Witness ==
  /\ Returned("initialize") /\ lastOp.ret = -1
  /\ lastOp.pre.major_version = 2 /\ lastOp.log[1].ret = 5
  /\ Dev.info[1] # 0 /\ Dev.info[3] # 0

\* C17: paged_load returns an error and issues no transport request;
\* write_byte returns an error for every memory; read_byte returns 0 with
\* value 0xFF for fuse and lock memories and an error for every other
\* memory; paged_write on a memory other than flash returns an error with
\* no transport request; none of them changes the session state.
C17_UnsupportedOperations ==
  /\ Returned("paged_load") => lastOp.ret < 0 /\ lastOp.log = <<>> /\ pdata = lastOp.pre
  /\ Returned("write_byte") => lastOp.ret < 0 /\ lastOp.log = <<>> /\ pdata = lastOp.pre
  /\ Returned("read_byte") =>
       /\ lastOp.arg.mem \in {"lfuse", "hfuse", "lock"} =>
            lastOp.ret = 0 /\ lastOp.out = <<255>>
       /\ lastOp.arg.mem \notin {"lfuse", "hfuse", "lock"} =>
            lastOp.ret < 0 /\ lastOp.out = <<>>
       /\ lastOp.log = <<>> /\ pdata = lastOp.pre
  /\ Returned("paged_write") /\ lastOp.arg.mem # "flash" =>
       lastOp.ret < 0 /\ lastOp.log = <<>> /\ pdata = lastOp.pre

\* read_byte was refused for the flash of an initialized session whose
\* flags are pending.
C17_Witness ==
  /\ Returned("read_byte") /\ lastOp.arg.mem = "flash" /\ lastOp.ret = -1
  /\ phase = "ready" /\ pdata.write_last_page /\ pdata.start_program

\* The decimal value of the digits str[from..to].
RECURSIVE DecimalOf(_, _, _)
DecimalOf(str, from, to) ==
  IF to < from THEN 0 ELSE DecimalOf(str, from, to - 1) * 10 + DigitValue(str[to])

\* str[from..] is a decimal number: an optional sign and at least one
\* digit, nothing else.
IsNumber(str, from) ==
  LET first == IF from <= Len(str) /\ str[from] \in {"-", "+"} THEN from + 1 ELSE from
  IN first <= Len(str) /\ \A k \in first..Len(str) : IsDigit(str[k])

NumberOf(str, from) ==
  IF str[from] = "-" THEN 0 - DecimalOf(str, from + 1, Len(str))
  ELSE IF str[from] = "+" THEN DecimalOf(str, from + 1, Len(str))
  ELSE DecimalOf(str, from, Len(str))

\* The parameter is wait=<n> for a number n; it is wait or wait=<n>.
IsWaitN(param) == str_starts(param, StrWaitEq) /\ IsNumber(param, 6)
IsWaitEntry(param) == str_eq(param, StrWait) \/ IsWaitN(param)

\* C18 (as stated): parseextparams() goes by the first entry that is
\* neither wait nor wait=<n>: help makes it return the non-error exit code,
\* any other string -1. A list of wait and wait=<n> entries only returns 0
\* with wait-for-device enabled and the timeout of the last entry in
\* effect: -1 for wait, n for wait=<n>.
C18_ExtendedParameters ==
  Returned("parseextparams") =>
    LET xparams == lastOp.arg.xparams
        others == {i \in DOMAIN xparams : ~IsWaitEntry(xparams[i])}
    IN IF others = {}
         THEN /\ lastOp.ret = 0
              /\ xparams = <<>> => pdata = lastOp.pre
              /\ xparams # <<>> =>
                   LET last == xparams[Len(xparams)]
                   IN /\ pdata.wait_until_device_present
                      /\ pdata.wait_timout =
                           IF str_eq(last, StrWait) THEN -1 ELSE NumberOf(last, 6)
         ELSE LET first == xparams[CHOOSE i \in others : \A j \in others : i <= j]
              IN lastOp.ret = IF str_eq(first, StrHelp) THEN LIBAVRDUDE_EXIT ELSE -1

\* C18 for lists in which every entry that begins with wait= is wait=<n>
\* for a number n.
C18_WellFormedParameters ==
  Returned("parseextparams")
  /\ (\A i \in DOMAIN lastOp.arg.xparams :
        str_starts(lastOp.arg.xparams[i], StrWaitEq) => IsWaitN(lastOp.arg.xparams[i]))
  => C18_ExtendedParameters

\* A paged write that put exactly one page on the wire.
OnePageWrite ==
  /\ Returned("paged_write")
  /\ Len(Pages(lastOp.log, lastOp.pre.major_version >= 2)) = 1

\* The address of that page and the address of the page before the
\* bootloader.
WrittenAddress == Pages(lastOp.log, lastOp.pre.major_version >= 2)[1].addr
LastPageAddress == lastOp.pre.bootloader_start - lastOp.pre.page_size

\* C19 (as stated): a page write at address 0 sets write_last_page and
\* start_program; a page write at bootloader_start - page_size clears
\* write_last_page and leaves start_program as it was; a page write at any
\* other address leaves both flags as they were.  (That write_last_page is
\* true exactly when address 0 was written with no later write of the page
\* at bootloader_start - page_size follows from these three rules.)
C19_FlagEffects ==
  OnePageWrite =>
    /\ WrittenAddress = 0 => pdata.write_last_page /\ pdata.start_program
    /\ WrittenAddress = LastPageAddress =>
         ~pdata.write_last_page /\ pdata.start_program = lastOp.pre.start_program
    /\ WrittenAddress \notin {0, LastPageAddress} =>
         /\ pdata.write_last_page = lastOp.pre.write_last_page
         /\ pdata.start_program = lastOp.pre.start_program

\* C19 where it holds: on geometries of more than one page and for page
\* writes at addresses up to bootloader_start - page_size.
C19_FlagEffectsUpToLastPage ==
  OnePageWrite /\ LastPageAddress # 0 /\ WrittenAddress <= LastPageAddress
    => C19_FlagEffects

\* Bytes the claim lets the patch engine replace: in a V2 session, those
\* of the page at address 0 and of the page at
\* bootloader_start - page_size.
InPatchScope(addr, b) ==
  /\ lastOp.pre.major_version >= 2
  /\ addr \in {0, lastOp.pre.bootloader_start - lastOp.pre.page_size}

\* C20 (as stated): of the pages a successful paged write transmits, only
\* the page at address 0 and the page at bootloader_start - page_size of a
\* V2 session differ from the caller's chunk followed by 0xFF fill; every
\* page of a V1 session and every page at another address of a V2 session
\* goes out unmodified.
C20_PatchScope ==
  AcceptedWrite /\ lastOp.arg.n_bytes >= 1 /\ lastOp.ret = 0 =>
    Chunked(InPatchScope)

\* C20 for V1 sessions, where it holds: every page is the caller's chunk
\* followed by 0xFF fill.
C20_V1Unmodified ==
  AcceptedWrite /\ lastOp.arg.n_bytes >= 1 /\ lastOp.ret = 0
  /\ lastOp.pre.major_version < 2 => Chunked(NeverExempt)

\* The first two words of page 0 as patch_reset_vector left them.
BootJump == <<lastOp.out[1], lastOp.out[2], lastOp.out[3], lastOp.out[4]>>

\* The page-0 half of C21: after a successful page-0 patch the page begins
\* with 0x940C and bootloader_start when bootloader_start > 0x2000, and
\* otherwise with 0xC000 | ((bootloader_start / 2 - 1) & 0x0FFF).
PageZeroJumpWidth ==
  Returned("patch_reset_vector") /\ lastOp.ret = 0 =>
    LET bs == lastOp.pre.bootloader_start
    IN IF bs > LongJumpLimit
         THEN /\ Word(BootJump[1], BootJump[2]) = JMP
              /\ Word(BootJump[3], BootJump[4]) = bs
         ELSE Word(BootJump[1], BootJump[2]) = RJMP + (((bs \div 2) - 1) % 4096)

\* C21 (as stated): the page-0 patch emits a long jump (0x940C and the
\* target) exactly when bootloader_start > 0x2000 and otherwise the
\* relative jump 0xC000 | ((bootloader_start / 2 - 1) & 0x0FFF); the
\* last-page patch chooses by the same rule, so both patches of a session
\* have the same instruction width.
C21_JumpWidth ==
  /\ PageZeroJumpWidth
  /\ Returned("patch_user_vector") =>
       (IsLongJump(UserJump, 0) <=> lastOp.pre.bootloader_start > LongJumpLimit)

\* The page buffer paged_write hands to write_page for its first page.
FirstPage ==
  PageBuffer(lastOp.arg.img, lastOp.arg.addr,
             Min(lastOp.arg.n_bytes, lastOp.pre.page_size), lastOp.pre.page_size)

\* The first word of a page is a branch: 0x940C or 0xCxxx.
BeginsWithBranch(buffer) ==
  Word(buffer[1], buffer[2]) = JMP \/ Word(buffer[1], buffer[2]) \div 4096 = 12

\* C22: in a V2 session a page write at address 0 whose first word is
\* neither 0x940C nor 0xCxxx fails without a transport request and leaves
\* the page buffer, user_reset_vector, write_last_page and start_program as
\* they were; so does the blank page powerdown() writes at address 0 when
\* bootloader_start - page_size is 0: no page request goes out, and
\* user_reset_vector and the write_last_page powerdown() cleared stay.
C22_InvalidResetVector ==
  /\ AcceptedWrite /\ lastOp.pre.major_version >= 2 /\ lastOp.arg.addr = 0
     /\ lastOp.arg.n_bytes >= 1 /\ ~BeginsWithBranch(FirstPage) =>
       /\ lastOp.ret < 0
       /\ lastOp.log = <<>>
       /\ pdata = lastOp.pre
       /\ micronucleus_patch_reset_vector(lastOp.pre, FirstPage).buffer = FirstPage
  /\ Returned("powerdown") /\ lastOp.pre.major_version >= 2
     /\ lastOp.pre.write_last_page
     /\ lastOp.pre.bootloader_start - lastOp.pre.page_size = 0 =>
       /\ PageReqs(lastOp.log) = {}
       /\ pdata.user_reset_vector = lastOp.pre.user_reset_vector
       /\ ~pdata.write_last_page

\* A page 0 without a branch was refused in a V2 session in which an
\* earlier page 0 had set both flags and the user reset vector.
C22_Witness ==
  /\ AcceptedWrite /\ lastOp.pre.major_version >= 2 /\ lastOp.arg.addr = 0
  /\ lastOp.arg.n_bytes >= 2 /\ ~BeginsWithBranch(FirstPage)
  /\ lastOp.ret = -1
  /\ lastOp.pre.write_last_page /\ lastOp.pre.start_program
  /\ lastOp.pre.user_reset_vector = 291

\* powerdown() of a one-page V2 session with write_last_page pending.
C22_PowerdownCase ==
  /\ Returned("powerdown") /\ lastOp.pre.major_version >= 2
  /\ lastOp.pre.write_last_page
  /\ lastOp.pre.bootloader_start - lastOp.pre.page_size = 0

\* A write_page call that reached the transport.
PageSent == Returned("write_page") /\ lastOp.log # <<>>

\* The page is one the patch engine leaves alone.
Unpatched ==
  \/ lastOp.pre.major_version < 2
  \/ lastOp.arg.addr # 0 /\ ~IsLastPageAddress(lastOp.pre, lastOp.arg.addr)

\* The log is the V1 sequence of the page: one TRANSFER request with the
\* N bytes as payload.
SequenceV1(log, N) ==
  /\ NumReq(log) = 1
  /\ IsCmd(log[1], MICRONUCLEUS_CMD_TRANSFER)
  /\ log[1].value = N /\ log[1].index = lastOp.arg.addr
  /\ Len(log[1].data) = N
  /\ \A b \in 1..N : log[1].data[b] = lastOp.out[b]

\* The log is the V2 sequence of the page with count PROGRAM requests: a
\* TRANSFER request with size, address and no payload, then the PROGRAM
\* requests, the k-th carrying bytes 4k..4k+3 as two little-endian words.
SequenceV2(log, N, count) ==
  /\ NumReq(log) = 1 + count
  /\ IsCmd(log[1], MICRONUCLEUS_CMD_TRANSFER)
  /\ log[1].value = N /\ log[1].index = lastOp.arg.addr /\ log[1].data = <<>>
  /\ \A k \in 0..(count - 1) :
       /\ IsCmd(log[2 + k], MICRONUCLEUS_CMD_PROGRAM)
       /\ log[2 + k].data = <<>>
       /\ Unpatched /\ 4 * k + 4 <= N =>
            /\ log[2 + k].value = Word(lastOp.out[4 * k + 1], lastOp.out[4 * k + 2])
            /\ log[2 + k].index = Word(lastOp.out[4 * k + 3], lastOp.out[4 * k + 4])

\* A failed request ends the log, its result is returned and no sleep was
\* taken.
StopsAtFailure(log) ==
  /\ \A i \in DOMAIN log : IsReq(log[i]) /\ (log[i].ret < 0 => i = Len(log))
  /\ lastOp.ret = LastRet(log)

\* The page went out as count_of(N) PROGRAM requests in V2.
WireSequence(count) ==
  PageSent =>
    LET log == lastOp.log
        N == lastOp.pre.page_size
    IN IF AnyFailed(log) THEN StopsAtFailure(log)
       ELSE /\ lastOp.ret = 0
            /\ log[Len(log)] = Ev("sleep", 0, lastOp.pre.write_sleep, 0, <<>>, 0)
            /\ IF lastOp.pre.major_version >= 2
                 THEN SequenceV2(log, N, count) ELSE SequenceV1(log, N)

\* C23 (as stated): a V1 page of N bytes goes out as exactly one TRANSFER
\* request carrying the N bytes; a V2 page as one TRANSFER request with
\* size, address and no payload followed by exactly N/4 PROGRAM requests,
\* the k-th carrying bytes 4k..4k+3 as two little-endian 16-bit parameters
\* and no payload; the sequence stops at the first failing request, whose
\* result is returned, and neither the write sleep nor another request
\* follows.
C23_WireSequence == WireSequence(lastOp.pre.page_size \div 4)

\* C23 where it holds: for page sizes that are a multiple of 4.
C23_WireSequenceWholeWords ==
  lastOp.pre.page_size % 4 = 0 => WireSequence(lastOp.pre.page_size \div 4)

\* What the code does for every page size: (N + 3) / 4 PROGRAM requests.
C23_WireSequenceRoundedUp == WireSequence((lastOp.pre.page_size + 3) \div 4)

\* C24 (as stated): every control request of an operation between a
\* successful open() and close() goes out on a handle that is not NULL,
\* also in the operations that follow a chip_erase whose 25 reconnect
\* attempts all failed.
C24_RequestsOnOpenHandle ==
  lastOp # NoOp /\ NumReq(lastOp.log) > 0 => lastOp.pre.usb_handle # NULL

\* C24 for sessions in which no reconnect has failed: the handle open()
\* retained is still there when an operation issues a request.
C24_RequestsWhileConnected ==
  pdata.usb_handle # NULL /\ lastOp # NoOp /\ NumReq(lastOp.log) > 0 =>
    lastOp.pre.usb_handle # NULL

\* powerdown() and paged_write called after a chip_erase that lost the
\* handle: the process dies in their first request.
C24_PowerdownOnNull ==
  lastOp.name = "powerdown" /\ lastOp.crashed /\ lastOp.pre.usb_handle = NULL
C24_PagedWriteOnNull ==
  lastOp.name = "paged_write" /\ lastOp.crashed /\ lastOp.pre.usb_handle = NULL

\* Every page whose TRANSFER request is in the log of the last operation
\* ends at or before bootloader_start.
BelowBootloader ==
  \A i \in ReqsOf(lastOp.log, MICRONUCLEUS_CMD_TRANSFER) :
    lastOp.log[i].index + lastOp.pre.page_size <= lastOp.pre.bootloader_start

\* C25 (as stated): every page an accepted paged write transmits, and the
\* page powerdown() writes, occupies a range [a, a + page_size) with
\* a + page_size <= bootloader_start.
C25_BootloaderUntouched ==
  AcceptedWrite \/ Returned("powerdown") => BelowBootloader

\* C25 where it holds: for paged writes at a multiple of the device's page
\* size and for powerdown(), on geometries whose bootloader_start was not
\* truncated to 16 bits.
C25_AlignedWrites ==
  /\ AcceptedWrite \/ Returned("powerdown")
  /\ lastOp.pre.bootloader_start >= lastOp.pre.flash_size
  /\ lastOp.name = "paged_write" => lastOp.arg.addr % lastOp.pre.page_size = 0
  => BelowBootloader

\* The version in the descriptor of device i.
DescriptorMajor(i) == (usb_busses[i].bcdDevice \div 256) % 256
DescriptorMinor(i) == usb_busses[i].bcdDevice % 256

\* C26: whenever open() succeeds, major_version and minor_version are
\* those of the descriptor of the device that was retained, whatever
\* other candidates the scan probed or rejected, and major_version is at
\* most 2; initialize, paged_write, chip_erase (reconnecting or not) and
\* powerdown leave both as they were, so that they still are the retained
\* device's as long as the session holds its handle.
C26_VersionOfRetained ==
  /\ OpenReturned /\ lastOp.ret = 0 => pdata.usb_handle \in DOMAIN usb_busses
  /\ phase \in {"opened", "ready", "initfailed", "down"} /\ pdata.usb_handle # NULL =>
       /\ pdata.major_version = DescriptorMajor(pdata.usb_handle)
       /\ pdata.minor_version = DescriptorMinor(pdata.usb_handle)
       /\ pdata.major_version <= MICRONUCLEUS_MAX_MAJOR_VERSION
  /\ lastOp.name \in {"initialize", "paged_write", "chip_erase", "powerdown"} =>
       /\ pdata.major_version = lastOp.pre.major_version
       /\ pdata.minor_version = lastOp.pre.minor_version

\* open() retained the V1 device it found after it had probed and
\* rejected a V3 device.
C26_Witness ==
  /\ OpenReturned /\ lastOp.ret = 0
  /\ pdata.usb_handle = 2 /\ pdata.major_version = 1
  /\ DescriptorMajor(1) = 3 /\ Candidate(1) /\ Examined(1)

\* A chip_erase that reconnected, in a session open() had set up.
C26_AfterReconnect ==
  /\ Returned("chip_erase") /\ lastOp.ret = 0
  /\ EventsOf(lastOp.log, "close") # {}
  /\ pdata.usb_handle = 2 /\ pdata.major_version = 1

====
